---- MODULE Spec2Model ----
(***************************************************************************)
(* Conversation orchestration and usage accounting of the Telegram LLM     *)
(* chat bot: the conversation documents (models/conversation.model.ts),    *)
(* the ConversationService operations on them (services/conversation.      *)
(* service.ts), the shared OpenRouter client (config/openrouter.config.ts) *)
(* and the usage ledger (services/usage.service.ts).                       *)
(*                                                                         *)
(* Every service method is an async function: it runs on the single       *)
(* JavaScript thread up to its next await, and other calls run while it    *)
(* waits.  One action of the model is one such run: the arrival of the     *)
(* awaited database or provider answer together with the synchronous code  *)
(* that follows it.  A document returned by a query is a private in-memory *)
(* copy (doc); save() sends to the store only the delta of that copy:      *)
(* a $push of the pushed message, a $set of the scalar paths whose value   *)
(* changed, and the version key __v (the schema keeps it: the toJSON       *)
(* transform deletes ret.__v), which a $push increments and which a $set   *)
(* of the whole array both tests and increments.                           *)
(***************************************************************************)
EXTENDS Integers, Sequences, FiniteSets, TLC

\* Number of service calls made in a behaviour; all of them may overlap.
NOps == 2
\* Longest message list and largest limit given to getContext in SpecContext.
MaxCtxLen == 15
MaxLimit == 11
\* Most usage records written in SpecUsage.
MaxLedger == 3
\* Most conversation documents, and the latest clock reading, in SpecList.
MaxConvs == 3
\* Messages the conversation of SpecTurns holds before the first call.
HistoryLen == 10
MaxClock == 2

Ops == 1 .. NOps

\* Two identifiers of the catalog AVAILABLE_MODELS and one that is not in it.
AVAILABLE_MODELS == {"deepseek/deepseek-chat:free", "openai/o3-mini"}
BadModel == "claude-2"
ModelIds == AVAILABLE_MODELS \cup {BadModel}

\* Telegram ids that resolve to a user document, and one that does not.
KnownUsers == {1, 2}
TelegramIds == KnownUsers \cup {3}

\* The generation statistics the provider may report: tokens_prompt,
\* tokens_completion and total_cost (cost in integer units).
GenerationStats ==
    { [tokens_prompt |-> 1, tokens_completion |-> 1, total_cost |-> 0],
      [tokens_prompt |-> 2, tokens_completion |-> 1, total_cost |-> 3] }

NoDoc == [none |-> TRUE]
NoCall == [kind |-> "none"]
Idle == [pc |-> "idle"]

\* env.adminIds (ADMIN_TELEGRAM_IDS)
AdminIds == {1}

\* The user collection the bot starts with: the admin, and one whitelisted
\* user who is not an admin.
InitialUsers ==
    << [telegramId |-> 1, isAdmin |-> TRUE, isWhitelisted |-> TRUE],
       [telegramId |-> 2, isAdmin |-> FALSE, isWhitelisted |-> TRUE] >>

\* connectDB before it is called
NotCalled == [pc |-> "idle", retries |-> 0, attempts |-> <<>>]

VARIABLES
    store,          \* conversation collection: id -> stored document
    ledger,         \* usage collection, in insertion order
    currentModel,   \* OpenRouterClient.currentModel of the singleton client
    pc,             \* per call: the await it is suspended at
    call,           \* per call: the method and its arguments
    doc,            \* per call: the in-memory conversation document, while it runs
    request,        \* per call: body of the POST /chat/completions it sent
    result,         \* per call: what createChatCompletion returned
    log,            \* per call: the steps it has completed (history)
    ctxMessages,    \* SpecContext: the message list of a document
    ctxCall,        \* SpecContext: the last getContext call and its result
    usageCall,      \* SpecUsage: the last aggregation call and its result
    convs,          \* SpecList: conversation documents, in natural order
    now,            \* SpecList: the clock that new Date() reads
    listCall,       \* SpecList: the getUserConversations call that just returned
    chat,           \* SpecChat: per handler run, where handleMessage stands
    usageLog,       \* SpecChat: usage records with their timestamp
    conn,           \* SpecDB: the connectDB call, its loop and its attempts
    users,          \* SpecUsers: the user collection, in insertion order
    cmd,            \* SpecUsers, SpecBot: per handler run, the command it
                    \* handles and the await it is suspended at
    listeners,      \* SpecBot: the callback_query listeners registered
    pending         \* SpecBot: listener runs suspended in updateModel

coreVars == <<store, ledger, currentModel, pc, call, doc, request, result, log>>
orchVars == <<store, currentModel, pc, call, doc, request, result, log>>
ctxVars == <<ctxMessages, ctxCall>>
usageVars == <<usageCall>>
listVars == <<convs, now, listCall>>
chatVars == <<chat, usageLog>>
dbVars == <<conn>>
userVars == <<users, cmd>>
botVars == <<listeners, pending>>
moreVars == <<dbVars, userVars, botVars>>
sideVars == <<ctxVars, usageVars, listVars, chatVars, moreVars>>
vars == <<store, ledger, currentModel, pc, call, doc, request, result, log,
          ctxMessages, ctxCall, usageCall, convs, now, listCall,
          chat, usageLog, conn, users, cmd, listeners, pending>>

----------------------------------------------------------------------------
\* Conversation documents

\* msg.tokens?.total || 0 and msg.cost || 0 of the pre-save hook
TokensOf(msg) == IF "tokens" \in DOMAIN msg THEN msg.tokens.total ELSE 0
CostOf(msg) == IF "cost" \in DOMAIN msg THEN msg.cost ELSE 0

RECURSIVE ReduceTokens(_)
ReduceTokens(messages) ==
    IF messages = <<>> THEN 0
    ELSE ReduceTokens(SubSeq(messages, 1, Len(messages) - 1))
         + TokensOf(messages[Len(messages)])

RECURSIVE ReduceCost(_)
ReduceCost(messages) ==
    IF messages = <<>> THEN 0
    ELSE ReduceCost(SubSeq(messages, 1, Len(messages) - 1))
         + CostOf(messages[Len(messages)])

\* PreSave with the totals taken from the pushed message alone instead of
\* the whole list (fault seeded for C1).
PreSave_LastOnly(d, messagesModified) ==
    IF messagesModified /\ d.messages # <<>>
    THEN [d EXCEPT !.totalTokens = TokensOf(d.messages[Len(d.messages)]),
                   !.totalCost = CostOf(d.messages[Len(d.messages)])]
    ELSE d

\* pre('save'): when the document's messages are modified, recompute both
\* totals from the document's own message list.
PreSave(d, messagesModified) ==
    IF messagesModified
    THEN [d EXCEPT !.totalTokens = ReduceTokens(d.messages),
                   !.totalCost = ReduceCost(d.messages)]
    ELSE d

\* Array.prototype.slice(start) of a list
Slice(messages, start) ==
    LET n == Len(messages)
        k == IF start < 0 THEN (IF n + start < 0 THEN 0 ELSE n + start)
             ELSE (IF start > n THEN n ELSE start)
    IN SubSeq(messages, k + 1, n)

\* GetContext that returns the whole list (fault seeded for C22).
GetContext_Whole(messages, limit) == messages

\* getContext(limit = 10): this.messages.slice(-limit)
DefaultLimit == 10
GetContext(messages, limit) == Slice(messages, 0 - limit)

\* Conversation.create({userId, model, title, messages: [], totalTokens: 0,
\* totalCost: 0})
NewConversation(userId, model) ==
    [userId |-> userId, model |-> model, messages |-> <<>>,
     totalTokens |-> 0, totalCost |-> 0, v |-> 0]

----------------------------------------------------------------------------
\* The provider client

\* SetModel that leaves this.currentModel as it was (fault seeded for C7).
SetModel_Keep(current, model) == current

\* SetModelThrows that accepts every identifier (fault seeded for C29).
SetModelThrows_Never(model) == FALSE

\* new OpenRouterClient(defaultModel): a default that is given and is not in
\* the catalog is replaced by 'deepseek/deepseek-chat:free', and so is a
\* default that is not given.
NoDefault == ""
Constructor(defaultModel) ==
    IF defaultModel # NoDefault /\ defaultModel \notin AVAILABLE_MODELS
    THEN "deepseek/deepseek-chat:free"
    ELSE IF defaultModel # NoDefault THEN defaultModel
         ELSE "deepseek/deepseek-chat:free"

\* setModel(model): throws for an identifier outside the catalog, and
\* otherwise assigns this.currentModel.
SetModelThrows(model) == model \notin AVAILABLE_MODELS
SetModel(current, model) == IF SetModelThrows(model) THEN current ELSE model

\* Body of the POST /chat/completions request: the client's current model
\* and the messages handed to createChatCompletion.
PostBody(current, messages) == [model |-> current, messages |-> messages]

\* ChatCompletion that reports the prompt count as total_tokens (fault
\* seeded for C23).
ChatCompletion_TotalFromPrompt(content, stats) ==
    [content |-> content,
     usage |-> [prompt_tokens |-> stats.tokens_prompt,
                completion_tokens |-> stats.tokens_completion,
                total_tokens |-> stats.tokens_prompt],
     cost |-> stats.total_cost]

\* What createChatCompletion returns from the generation statistics:
\* total_tokens is tokens_prompt + tokens_completion.
ChatCompletion(content, stats) ==
    [content |-> content,
     usage |-> [prompt_tokens |-> stats.tokens_prompt,
                completion_tokens |-> stats.tokens_completion,
                total_tokens |-> stats.tokens_prompt + stats.tokens_completion],
     cost |-> stats.total_cost]

----------------------------------------------------------------------------
\* save() of an in-memory document

\* addMessage on the in-memory document: push, then the pre-save hook.
AddMessage(d, message) ==
    PreSave([d EXCEPT !.messages = Append(@, message)], TRUE)

\* The update save() sends for addMessage, applied to the stored document:
\* $push of the message, $set of each total the hook changed, $inc of __v.
PushUpdate(stored, before, after, message) ==
    [stored EXCEPT !.messages = Append(@, message),
                   !.totalTokens = IF after.totalTokens # before.totalTokens
                                   THEN after.totalTokens ELSE @,
                   !.totalCost = IF after.totalCost # before.totalCost
                                 THEN after.totalCost ELSE @,
                   !.v = @ + 1]

\* clearHistory on the in-memory document.  Assigning [] to an empty list
\* leaves the path unmodified, and then the hook does not run.
ClearDoc(d) ==
    PreSave([d EXCEPT !.messages = <<>>, !.totalTokens = 0, !.totalCost = 0],
            d.messages # <<>>)

\* ClearUpdate that resets the totals and leaves the stored messages (fault
\* seeded for C9).
ClearUpdate_TotalsOnly(stored, before, after) ==
    [stored EXCEPT !.totalTokens = 0, !.totalCost = 0]

\* ClearUpdate that writes the whole in-memory document back, the paths it
\* did not change included (fault seeded for C10).
ClearUpdate_WholeDocument(stored, before, after) ==
    [after EXCEPT !.v = stored.v + 1]

\* The update save() sends for clearHistory: $set of the whole array (which
\* carries the version test and increments __v) and of each changed total.
ClearUpdate(stored, before, after) ==
    [stored EXCEPT !.messages = IF before.messages # <<>> THEN <<>> ELSE @,
                   !.totalTokens = IF after.totalTokens # before.totalTokens
                                   THEN after.totalTokens ELSE @,
                   !.totalCost = IF after.totalCost # before.totalCost
                                 THEN after.totalCost ELSE @,
                   !.v = IF before.messages # <<>> THEN @ + 1 ELSE @]

\* The $set of the array is refused (VersionError) when the stored __v is no
\* longer the one the document was loaded with.
VersionConflict(stored, before) ==
    before.messages # <<>> /\ stored.v # before.v

\* The update save() sends for updateModel: $set of model when it changed.
ModelUpdate(stored, before, model) ==
    [stored EXCEPT !.model = IF model # before.model THEN model ELSE @]

\* UsageRecord with the prompt count stored as total (fault seeded for C3).
UsageRecord_PromptAsTotal(userId, conversationId, model, tokens, cost, op) ==
    [userId |-> userId, conversationId |-> conversationId, model |-> model,
     tokens |-> [tokens EXCEPT !.total = tokens.prompt], cost |-> cost,
     op |-> op]

\* Usage.create of trackUsage; op is history: the call that wrote the record.
UsageRecord(userId, conversationId, model, tokens, cost, op) ==
    [userId |-> userId, conversationId |-> conversationId, model |-> model,
     tokens |-> tokens, cost |-> cost, op |-> op]

----------------------------------------------------------------------------
\* Usage aggregation (models/usage.model.ts).  A pipeline stage is modelled
\* by what it emits: $group emits one document per distinct _id, written
\* here as a function from the _id values to the accumulated fields, and it
\* emits nothing for no input.

\* $sum over the numbers of a list, and over the values of f on a set of keys
RECURSIVE Sum(_)
Sum(nums) ==
    IF nums = <<>> THEN 0
    ELSE nums[1] + Sum(SubSeq(nums, 2, Len(nums)))

RECURSIVE SumOver(_, _)
SumOver(f, keys) ==
    IF keys = {} THEN 0
    ELSE LET k == CHOOSE k \in keys : TRUE
         IN f[k] + SumOver(f, keys \ {k})

\* { $sum: '$tokens.total' } and { $sum: '$cost' } over usage documents
SumTokensTotal(docs) == Sum([i \in DOMAIN docs |-> docs[i].tokens.total])
SumCost(docs) == Sum([i \in DOMAIN docs |-> docs[i].cost])

\* Match that lets every document through (fault seeded for C12).
Match_All(docs, userId) == docs

\* { $match: { userId } }
Match(docs, userId) == SelectSeq(docs, LAMBDA d : d.userId = userId)

\* { $group: { _id: '$model', tokens: {$sum: '$tokens.total'},
\*             cost: {$sum: '$cost'} } }
GroupByModel(docs) ==
    [m \in {docs[i].model : i \in DOMAIN docs} |->
        LET g == SelectSeq(docs, LAMBDA d : d.model = m)
        IN [tokens |-> SumTokensTotal(g), cost |-> SumCost(g)]]

\* { $arrayToObject: [ {k, v}, ... ] }
ArrayToObject(pairs) ==
    [k \in {p.k : p \in pairs} |-> (CHOOSE p \in pairs : p.k = k).v]

\* { $group: { _id: null, totalTokens, totalCost, modelBreakdown: {$push:
\* {k: '$_id', v: {tokens, cost}}} } } and the $project after it
GroupUserTotals(groups) ==
    IF DOMAIN groups = {} THEN <<>>
    ELSE << [totalTokens |->
                SumOver([m \in DOMAIN groups |-> groups[m].tokens],
                        DOMAIN groups),
             totalCost |->
                SumOver([m \in DOMAIN groups |-> groups[m].cost],
                        DOMAIN groups),
             modelBreakdown |->
                ArrayToObject({[k |-> m,
                                v |-> [tokens |-> groups[m].tokens,
                                       cost |-> groups[m].cost]] :
                               m \in DOMAIN groups})] >>

\* OrDefault that returns stats[0] as it is, undefined for an empty result
\* (fault seeded for C13).
OrDefault_Undefined(stats, default) ==
    IF stats = <<>> THEN [undefined |-> TRUE] ELSE stats[1]

\* stats[0] || { ... }
OrDefault(stats, default) == IF stats = <<>> THEN default ELSE stats[1]

\* Usage.getUserUsage(userId)
GetUserUsage(docs, userId) ==
    OrDefault(GroupUserTotals(GroupByModel(Match(docs, userId))),
              [totalTokens |-> 0, totalCost |-> 0, modelBreakdown |-> <<>>])

\* GroupByModelUser that groups by the model alone (fault seeded for C15).
GroupByModelUser_ModelOnly(docs) ==
    [key \in {<<docs[i].model, 0>> : i \in DOMAIN docs} |->
        LET g == SelectSeq(docs, LAMBDA d : d.model = key[1])
        IN [tokens |-> SumTokensTotal(g), cost |-> SumCost(g)]]

\* { $group: { _id: {model: '$model', userId: '$userId'}, tokens, cost } }
GroupByModelUser(docs) ==
    [key \in {<<docs[i].model, docs[i].userId>> : i \in DOMAIN docs} |->
        LET g == SelectSeq(docs, LAMBDA d : d.model = key[1]
                                            /\ d.userId = key[2])
        IN [tokens |-> SumTokensTotal(g), cost |-> SumCost(g)]]

\* GroupUsersByModel that keeps the figures of one owner per model instead
\* of summing them (fault seeded for C38).
GroupUsersByModel_OneUser(groups) ==
    [m \in {key[1] : key \in DOMAIN groups} |->
        LET keys == {key \in DOMAIN groups : key[1] = m}
            one == CHOOSE key \in keys : TRUE
        IN [tokens |-> groups[one].tokens,
            cost |-> groups[one].cost,
            users |-> SumOver([key \in keys |-> 1], keys)]]

\* { $group: { _id: '$_id.model', tokens: {$sum: '$tokens'},
\*             cost: {$sum: '$cost'}, users: {$sum: 1} } }
GroupUsersByModel(groups) ==
    [m \in {key[1] : key \in DOMAIN groups} |->
        LET keys == {key \in DOMAIN groups : key[1] = m}
        IN [tokens |-> SumOver([key \in keys |-> groups[key].tokens], keys),
            cost |-> SumOver([key \in keys |-> groups[key].cost], keys),
            users |-> SumOver([key \in keys |-> 1], keys)]]

\* { $group: { _id: null, totalTokens, totalCost, activeUsers: {$sum:
\* '$users'}, modelUsage: {$push: {k: '$_id', v: {tokens, cost, users}}} } }
\* and the $project after it
GroupGlobalTotals(groups) ==
    IF DOMAIN groups = {} THEN <<>>
    ELSE << [totalTokens |->
                SumOver([m \in DOMAIN groups |-> groups[m].tokens],
                        DOMAIN groups),
             totalCost |->
                SumOver([m \in DOMAIN groups |-> groups[m].cost],
                        DOMAIN groups),
             activeUsers |->
                SumOver([m \in DOMAIN groups |-> groups[m].users],
                        DOMAIN groups),
             modelUsage |->
                ArrayToObject({[k |-> m,
                                v |-> [tokens |-> groups[m].tokens,
                                       cost |-> groups[m].cost,
                                       users |-> groups[m].users]] :
                               m \in DOMAIN groups})] >>

\* Usage.getGlobalStats()
GetGlobalStats(docs) ==
    OrDefault(GroupGlobalTotals(GroupUsersByModel(GroupByModelUser(docs))),
              [totalTokens |-> 0, totalCost |-> 0, activeUsers |-> 0,
               modelUsage |-> <<>>])

----------------------------------------------------------------------------
\* Messages built by sendMessage; content stands for the text of the call.
\* UserMessage that carries zero tokens and cost (fault seeded for C24).
UserMessage_WithUsage(content, model) ==
    [role |-> "user", content |-> content, model |-> model,
     tokens |-> [prompt |-> 0, completion |-> 0, total |-> 0], cost |-> 0]

UserMessage(content, model) ==
    [role |-> "user", content |-> content, model |-> model]

\* AssistantMessage without its model, which the schema then defaults to
\* 'claude-2' (fault seeded for C25).
AssistantMessage_DefaultModel(res, model) ==
    [role |-> "assistant", content |-> res.content, model |-> "claude-2",
     tokens |-> [prompt |-> res.usage.prompt_tokens,
                 completion |-> res.usage.completion_tokens,
                 total |-> res.usage.total_tokens],
     cost |-> res.cost]

AssistantMessage(res, model) ==
    [role |-> "assistant", content |-> res.content, model |-> model,
     tokens |-> [prompt |-> res.usage.prompt_tokens,
                 completion |-> res.usage.completion_tokens,
                 total |-> res.usage.total_tokens],
     cost |-> res.cost]

NoConversation == 0
ConversationIds == DOMAIN store \cup {NoConversation}

Init ==
    /\ store = (1 :> NewConversation(1, "deepseek/deepseek-chat:free"))
               @@ (2 :> NewConversation(2, "openai/o3-mini"))
    /\ ledger = <<>>
    /\ currentModel = "deepseek/deepseek-chat:free"
    /\ pc = [t \in Ops |-> "idle"]
    /\ call = [t \in Ops |-> NoCall]
    /\ doc = [t \in Ops |-> NoDoc]
    /\ request = [t \in Ops |-> NoDoc]
    /\ result = [t \in Ops |-> NoDoc]
    /\ log = [t \in Ops |-> <<>>]
    /\ ctxMessages = <<>>
    /\ ctxCall = [messages |-> <<>>, limit |-> DefaultLimit,
                  returned |-> GetContext(<<>>, DefaultLimit)]
    /\ usageCall = NoCall
    /\ convs = <<>>
    /\ now = 0
    /\ listCall = NoCall
    /\ chat = [h \in Ops |-> Idle]
    /\ usageLog = <<>>
    /\ conn = NotCalled
    /\ users = InitialUsers
    /\ cmd = [h \in Ops |-> Idle]
    /\ listeners = <<>>
    /\ pending = {}

\* getConversation(conversationId) at the head of sendMessage, clearHistory
\* and updateModel: the document, or NOT_FOUND thrown into the catch block.
Load(t, c, next) ==
    /\ pc[t] = "idle"
    /\ IF c \in DOMAIN store
       THEN /\ doc' = [doc EXCEPT ![t] = store[c]]
            /\ pc' = [pc EXCEPT ![t] = next]
            /\ log' = [log EXCEPT ![t] = <<"load">>]
       ELSE /\ doc' = doc
            /\ pc' = [pc EXCEPT ![t] = "failed"]
            /\ log' = log

\* sendMessage ---------------------------------------------------------
SendLoad(t, c) ==
    /\ Load(t, c, "loaded")
    /\ call' = [call EXCEPT ![t] =
                  [kind |-> "sendMessage", conversationId |-> c, content |-> t]]
    /\ UNCHANGED <<store, ledger, currentModel, request, result, sideVars>>

\* SendRequest that stores the user message before it calls the provider
\* (fault seeded for C2).
SendRequest_SavesFirst(t) ==
    LET c == call[t].conversationId
        message == UserMessage(call[t].content, doc[t].model)
    IN /\ pc[t] = "loaded"
       /\ ~SetModelThrows(doc[t].model)
       /\ currentModel' = doc[t].model
       /\ store' = [store EXCEPT ![c] =
                      PushUpdate(@, doc[t], AddMessage(doc[t], message),
                                 message)]
       /\ request' = [request EXCEPT ![t] =
            PostBody(currentModel',
                     GetContext(doc[t].messages, DefaultLimit)
                     \o <<message>>)]
       /\ pc' = [pc EXCEPT ![t] = "calling"]
       /\ log' = [log EXCEPT ![t] = Append(@, "request")]
       /\ UNCHANGED <<ledger, call, doc, result, sideVars>>

\* setModel(conversation.model), the user message, the context, and
\* createChatCompletion up to its await of the POST: one synchronous run.
SendRequest(t) ==
    /\ pc[t] = "loaded"
    /\ IF SetModelThrows(doc[t].model)
       THEN /\ pc' = [pc EXCEPT ![t] = "failed"]
            /\ doc' = [doc EXCEPT ![t] = NoDoc]
            /\ UNCHANGED <<currentModel, request, log>>
       ELSE /\ currentModel' = SetModel(currentModel, doc[t].model)
            /\ request' = [request EXCEPT ![t] =
                 PostBody(currentModel',
                          GetContext(doc[t].messages, DefaultLimit)
                          \o <<UserMessage(call[t].content, doc[t].model)>>)]
            /\ pc' = [pc EXCEPT ![t] = "calling"]
            /\ log' = [log EXCEPT ![t] = Append(@, "request")]
            /\ doc' = doc
    /\ UNCHANGED <<store, ledger, call, result, sideVars>>

\* SendResponse that goes on to trackUsage before the two addMessage calls
\* (fault seeded for C26).
SendResponse_TracksFirst(t, stats) ==
    /\ pc[t] = "calling"
    /\ result' = [result EXCEPT ![t] = ChatCompletion(call[t].content, stats)]
    /\ pc' = [pc EXCEPT ![t] = "track"]
    /\ log' = [log EXCEPT ![t] = Append(@, "response")]
    /\ UNCHANGED <<store, ledger, currentModel, call, doc, request, sideVars>>

\* SendResponse whose await of the generation statistics never settles
\* (fault seeded for C27).
SendResponse_NeverSettles(t, stats) ==
    /\ pc[t] = "calling"
    /\ pc' = [pc EXCEPT ![t] = "stats_wait"]
    /\ log' = [log EXCEPT ![t] = Append(@, "response")]
    /\ UNCHANGED <<store, ledger, currentModel, call, doc, request, result,
                   sideVars>>

\* The POST and the generation statistics lookup both answered.
SendResponse(t, stats) ==
    /\ pc[t] = "calling"
    /\ result' = [result EXCEPT ![t] = ChatCompletion(call[t].content, stats)]
    /\ pc' = [pc EXCEPT ![t] = "save_user"]
    /\ log' = [log EXCEPT ![t] = Append(@, "response")]
    /\ UNCHANGED <<store, ledger, currentModel, call, doc, request, sideVars>>

\* One addMessage of sendMessage: the push on the in-memory document and
\* the update its save() applies to the stored document.
SaveMessage(t, message, next) ==
    LET c == call[t].conversationId
        after == AddMessage(doc[t], message)
    IN /\ store' = [store EXCEPT ![c] = PushUpdate(@, doc[t], after, message)]
       /\ doc' = [doc EXCEPT ![t] = [after EXCEPT !.v = @ + 1]]
       /\ pc' = [pc EXCEPT ![t] = next]
       /\ log' = [log EXCEPT ![t] = Append(@, message.role)]

\* SendSaveUser that goes on to trackUsage, leaving the assistant message
\* out (fault seeded for C36).
SendSaveUser_SkipsAssistant(t) ==
    /\ pc[t] = "save_user"
    /\ SaveMessage(t, UserMessage(call[t].content, doc[t].model), "track")
    /\ UNCHANGED <<ledger, currentModel, call, request, result, sideVars>>

\* await conversation.addMessage(userMessage)
SendSaveUser(t) ==
    /\ pc[t] = "save_user"
    /\ SaveMessage(t, UserMessage(call[t].content, doc[t].model),
                   "save_assistant")
    /\ UNCHANGED <<ledger, currentModel, call, request, result, sideVars>>

\* await conversation.addMessage(assistantMessage)
SendSaveAssistant(t) ==
    /\ pc[t] = "save_assistant"
    /\ SaveMessage(t, AssistantMessage(result[t], doc[t].model), "track")
    /\ UNCHANGED <<ledger, currentModel, call, request, result, sideVars>>

\* SendTrackUsage that keeps one usage record, the latest, in place of the
\* ones written before (fault seeded for C16).
SendTrackUsage_Overwrites(t) ==
    /\ pc[t] = "track"
    /\ doc[t].userId \in KnownUsers
    /\ ledger' = << UsageRecord(doc[t].userId, call[t].conversationId,
                                doc[t].model,
                                [prompt |-> result[t].usage.prompt_tokens,
                                 completion |-> result[t].usage.completion_tokens,
                                 total |-> result[t].usage.total_tokens],
                                result[t].cost, t) >>
    /\ pc' = [pc EXCEPT ![t] = "done"]
    /\ log' = [log EXCEPT ![t] = Append(@, "usage")]
    /\ doc' = [doc EXCEPT ![t] = NoDoc]
    /\ request' = [request EXCEPT ![t] = NoDoc]
    /\ UNCHANGED <<store, currentModel, call, result, sideVars>>

\* await User.findById(conversation.get('userId')), NOT_FOUND when absent
\* (user documents are never deleted, so the lookup answers the same at any
\* moment), then await usageService.trackUsage(...), then the return.
SendTrackUsage(t) ==
    /\ pc[t] = "track"
    /\ IF doc[t].userId \in KnownUsers
       THEN /\ ledger' = Append(ledger,
                 UsageRecord(doc[t].userId, call[t].conversationId,
                             doc[t].model,
                             [prompt |-> result[t].usage.prompt_tokens,
                              completion |-> result[t].usage.completion_tokens,
                              total |-> result[t].usage.total_tokens],
                             result[t].cost, t))
            /\ pc' = [pc EXCEPT ![t] = "done"]
            /\ log' = [log EXCEPT ![t] = Append(@, "usage")]
            /\ result' = result
       ELSE /\ pc' = [pc EXCEPT ![t] = "failed"]
            /\ result' = [result EXCEPT ![t] = NoDoc]
            /\ UNCHANGED <<ledger, log>>
    /\ doc' = [doc EXCEPT ![t] = NoDoc]
    /\ request' = [request EXCEPT ![t] = NoDoc]
    /\ UNCHANGED <<store, currentModel, call, sideVars>>

\* clearHistory -----------------------------------------------------------
ClearLoad(t, c) ==
    /\ Load(t, c, "clear_loaded")
    /\ call' = [call EXCEPT ![t] =
                  [kind |-> "clearHistory", conversationId |-> c]]
    /\ UNCHANGED <<store, ledger, currentModel, request, result, sideVars>>

\* ClearSave that also deletes the usage records of the conversation (fault
\* seeded for C14).
ClearSave_DropsUsage(t) ==
    LET c == call[t].conversationId
        after == ClearDoc(doc[t])
    IN /\ pc[t] = "clear_loaded"
       /\ ~VersionConflict(store[c], doc[t])
       /\ store' = [store EXCEPT ![c] = ClearUpdate(@, doc[t], after)]
       /\ ledger' = SelectSeq(ledger, LAMBDA r : r.conversationId # c)
       /\ doc' = [doc EXCEPT ![t] = NoDoc]
       /\ pc' = [pc EXCEPT ![t] = "done"]
       /\ log' = [log EXCEPT ![t] = Append(@, "clear")]
       /\ UNCHANGED <<currentModel, call, request, result, sideVars>>

\* await conversation.clearHistory(), then the return
ClearSave(t) ==
    LET c == call[t].conversationId
        after == ClearDoc(doc[t])
    IN /\ pc[t] = "clear_loaded"
       /\ IF VersionConflict(store[c], doc[t])
          THEN /\ pc' = [pc EXCEPT ![t] = "failed"]
               /\ doc' = [doc EXCEPT ![t] = NoDoc]
               /\ UNCHANGED <<store, log>>
          ELSE /\ store' = [store EXCEPT ![c] = ClearUpdate(@, doc[t], after)]
               /\ doc' = [doc EXCEPT ![t] = NoDoc]
               /\ pc' = [pc EXCEPT ![t] = "done"]
               /\ log' = [log EXCEPT ![t] = Append(@, "clear")]
       /\ UNCHANGED <<ledger, currentModel, call, request, result, sideVars>>

\* updateModel ------------------------------------------------------------
UpdateLoad(t, c, model) ==
    /\ Load(t, c, "update_loaded")
    /\ call' = [call EXCEPT ![t] =
                  [kind |-> "updateModel", conversationId |-> c,
                   model |-> model]]
    /\ UNCHANGED <<store, ledger, currentModel, request, result, sideVars>>

\* await conversation.updateModel(model): the enum validator of the model
\* path rejects an identifier outside the catalog before anything is sent.
UpdateSave(t) ==
    LET c == call[t].conversationId
        model == call[t].model
    IN /\ pc[t] = "update_loaded"
       /\ IF model \notin AVAILABLE_MODELS
          THEN /\ pc' = [pc EXCEPT ![t] = "failed"]
               /\ doc' = [doc EXCEPT ![t] = NoDoc]
               /\ UNCHANGED <<store, log>>
          ELSE /\ store' = [store EXCEPT ![c] = ModelUpdate(@, doc[t], model)]
               /\ doc' = [doc EXCEPT ![t].model = model]
               /\ pc' = [pc EXCEPT ![t] = "update_saved"]
               /\ log' = [log EXCEPT ![t] = Append(@, "model")]
       /\ UNCHANGED <<ledger, currentModel, call, request, result, sideVars>>

\* openRouterClient.setModel(model) after the save, then the return
UpdateSetClient(t) ==
    /\ pc[t] = "update_saved"
    /\ currentModel' = SetModel(currentModel, call[t].model)
    /\ pc' = [pc EXCEPT ![t] = "done"]
    /\ log' = [log EXCEPT ![t] = Append(@, "client")]
    /\ doc' = [doc EXCEPT ![t] = NoDoc]
    /\ UNCHANGED <<store, ledger, call, request, result, sideVars>>

\* createConversation -----------------------------------------------------
\* await User.findByTelegramId(userId); NOT_FOUND when there is no such user;
\* then openRouterClient.setModel(model), which throws outside the catalog.
CreateFindUser(t, userId, model) ==
    /\ pc[t] = "idle"
    /\ call' = [call EXCEPT ![t] =
                  [kind |-> "createConversation", userId |-> userId,
                   model |-> model]]
    /\ IF userId \in KnownUsers /\ ~SetModelThrows(model)
       THEN /\ currentModel' = SetModel(currentModel, model)
            /\ pc' = [pc EXCEPT ![t] = "creating"]
            /\ log' = [log EXCEPT ![t] = <<"owner">>]
       ELSE /\ pc' = [pc EXCEPT ![t] = "failed"]
            /\ UNCHANGED <<currentModel, log>>
    /\ UNCHANGED <<store, ledger, doc, request, result, sideVars>>

\* await Conversation.create({...}) under a fresh id, then the return
CreateInsert(t) ==
    LET id == Cardinality(DOMAIN store) + 1
    IN /\ pc[t] = "creating"
       /\ store' = store @@ (id :> NewConversation(call[t].userId, call[t].model))
       /\ call' = [call EXCEPT ![t] = @ @@ [conversationId |-> id]]
       /\ pc' = [pc EXCEPT ![t] = "done"]
       /\ log' = [log EXCEPT ![t] = Append(@, "create")]
       /\ UNCHANGED <<ledger, currentModel, doc, request, result, sideVars>>

\* An awaited provider or storage call rejects: the catch block of the
\* method logs and rethrows, and nothing more of the method runs; its
\* locals (the document, the request, the result) are dropped.
Awaiting ==
    {"calling", "save_user", "save_assistant", "track",
     "clear_loaded", "update_loaded", "creating"}

Throw(t) ==
    /\ pc[t] \in Awaiting
    /\ pc' = [pc EXCEPT ![t] = "failed"]
    /\ doc' = [doc EXCEPT ![t] = NoDoc]
    /\ request' = [request EXCEPT ![t] = NoDoc]
    /\ result' = [result EXCEPT ![t] = NoDoc]
    /\ UNCHANGED <<store, ledger, currentModel, call, log, sideVars>>

\* The error that reaches the catch block of the method of call t: the
\* NOT_FOUND error the method creates itself for an absent conversation or
\* user, the plain Error of setModel, the ValidationError of the enum
\* validator of the model path, or the rejection of an awaited call.
Cause(t) ==
    CASE /\ call[t].kind \in {"sendMessage", "clearHistory", "updateModel"}
         /\ call[t].conversationId = NoConversation -> "NOT_FOUND"
      [] /\ call[t].kind = "createConversation"
         /\ call[t].userId \notin KnownUsers -> "NOT_FOUND"
      [] /\ call[t].kind = "createConversation"
         /\ call[t].userId \in KnownUsers
         /\ SetModelThrows(call[t].model) -> "Error"
      [] /\ call[t].kind = "updateModel"
         /\ call[t].conversationId # NoConversation
         /\ call[t].model \notin AVAILABLE_MODELS -> "ValidationError"
      [] OTHER -> "rejected"

\* The catch block of each method: whatever error it caught, it throws
\* createError with the one type written in that block.
Rethrown(method, error) ==
    CASE method = "sendMessage" -> "MODEL"
      [] method = "clearHistory" -> "DATABASE"
      [] method = "updateModel" -> "DATABASE"
      [] method = "createConversation" -> "DATABASE"
      [] method = "getUserConversations" -> "DATABASE"

\* The type of the error call t has thrown to its caller.
ErrorOf(t) ==
    IF pc[t] = "failed" THEN Rethrown(call[t].kind, Cause(t)) ELSE "none"

Step(t) ==
    \/ \E c \in ConversationIds : SendLoad(t, c)
    \/ SendRequest(t)
    \/ \E stats \in GenerationStats : SendResponse(t, stats)
    \/ SendSaveUser(t)
    \/ SendSaveAssistant(t)
    \/ SendTrackUsage(t)
    \/ \E c \in ConversationIds : ClearLoad(t, c)
    \/ ClearSave(t)
    \/ \E c \in ConversationIds, model \in ModelIds : UpdateLoad(t, c, model)
    \/ UpdateSave(t)
    \/ UpdateSetClient(t)
    \/ \E userId \in TelegramIds, model \in ModelIds :
           CreateFindUser(t, userId, model)
    \/ CreateInsert(t)
    \/ Throw(t)

Next == \E t \in Ops : Step(t)

Spec == Init /\ [][Next]_vars

\* The calls made one after another: a call takes a step only while no
\* other call is between its first and its last step.
InFlight(t) == pc[t] \notin {"idle", "done", "failed"}

Alone(t) == \A o \in Ops \ {t} : ~InFlight(o)

NextSeq ==
    \E t \in Ops :
       \/ \E c \in ConversationIds : Alone(t) /\ SendLoad(t, c)
       \/ Alone(t) /\ SendRequest(t)
       \/ \E stats \in GenerationStats : Alone(t) /\ SendResponse(t, stats)
       \/ Alone(t) /\ SendSaveUser(t)
       \/ Alone(t) /\ SendSaveAssistant(t)
       \/ Alone(t) /\ SendTrackUsage(t)
       \/ \E c \in ConversationIds : Alone(t) /\ ClearLoad(t, c)
       \/ Alone(t) /\ ClearSave(t)
       \/ \E c \in ConversationIds, model \in ModelIds :
              Alone(t) /\ UpdateLoad(t, c, model)
       \/ Alone(t) /\ UpdateSave(t)
       \/ Alone(t) /\ UpdateSetClient(t)
       \/ \E userId \in TelegramIds, model \in ModelIds :
              Alone(t) /\ CreateFindUser(t, userId, model)
       \/ Alone(t) /\ CreateInsert(t)
       \/ Alone(t) /\ Throw(t)

SpecSeq == Init /\ [][NextSeq]_vars

\* sendMessage calls alone, overlapping, on a conversation that already
\* holds HistoryLen messages of earlier exchanges (the last of them a user
\* message without an answer when HistoryLen is odd).
HistoryMessage(i) ==
    IF i % 2 = 1
    THEN UserMessage(0, "deepseek/deepseek-chat:free")
    ELSE AssistantMessage(
             ChatCompletion(0, [tokens_prompt |-> 1, tokens_completion |-> 1,
                                total_cost |-> 0]),
             "deepseek/deepseek-chat:free")

LongConversation(n) ==
    PreSave([NewConversation(1, "deepseek/deepseek-chat:free")
                EXCEPT !.messages = [i \in 1 .. n |-> HistoryMessage(i)],
                       !.v = n],
            TRUE)

InitTurns ==
    /\ store = (1 :> LongConversation(HistoryLen))
    /\ ledger = <<>>
    /\ currentModel = "deepseek/deepseek-chat:free"
    /\ pc = [t \in Ops |-> "idle"]
    /\ call = [t \in Ops |-> NoCall]
    /\ doc = [t \in Ops |-> NoDoc]
    /\ request = [t \in Ops |-> NoDoc]
    /\ result = [t \in Ops |-> NoDoc]
    /\ log = [t \in Ops |-> <<>>]
    /\ ctxMessages = <<>>
    /\ ctxCall = [messages |-> <<>>, limit |-> DefaultLimit,
                  returned |-> GetContext(<<>>, DefaultLimit)]
    /\ usageCall = NoCall
    /\ convs = <<>>
    /\ now = 0
    /\ listCall = NoCall
    /\ chat = [h \in Ops |-> Idle]
    /\ usageLog = <<>>
    /\ conn = NotCalled
    /\ users = InitialUsers
    /\ cmd = [h \in Ops |-> Idle]
    /\ listeners = <<>>
    /\ pending = {}

\* The steps of a sendMessage after its load: each is the answer of the
\* awaited call, or its rejection, and the synchronous code behind it.
Continue(t) ==
    \/ SendRequest(t)
    \/ \E stats \in GenerationStats : SendResponse(t, stats)
    \/ SendSaveUser(t)
    \/ SendSaveAssistant(t)
    \/ SendTrackUsage(t)
    \/ Throw(t)

NextTurns ==
    \E t \in Ops :
       \/ \E c \in ConversationIds : SendLoad(t, c)
       \/ Continue(t)

SpecTurns == InitTurns /\ [][NextTurns]_vars

\* The same calls on the two empty conversations, where every awaited call
\* is answered or rejected in the end and the continuation then runs.
SpecTurnsFair ==
    Init /\ [][NextTurns]_vars /\ \A t \in Ops : WF_vars(Continue(t))

\* The provider client from its construction on: the singleton is built from
\* env.defaultModel, whatever that is configured to, and then every method
\* that calls setModel runs, up to that call and to the end of its own
\* method (a sendMessage up to its provider request, which then fails).
InitClient ==
    /\ store = (1 :> NewConversation(1, "deepseek/deepseek-chat:free"))
               @@ (2 :> NewConversation(2, "openai/o3-mini"))
    /\ ledger = <<>>
    /\ currentModel \in {Constructor(d) : d \in ModelIds \cup {NoDefault}}
    /\ pc = [t \in Ops |-> "idle"]
    /\ call = [t \in Ops |-> NoCall]
    /\ doc = [t \in Ops |-> NoDoc]
    /\ request = [t \in Ops |-> NoDoc]
    /\ result = [t \in Ops |-> NoDoc]
    /\ log = [t \in Ops |-> <<>>]
    /\ ctxMessages = <<>>
    /\ ctxCall = [messages |-> <<>>, limit |-> DefaultLimit,
                  returned |-> GetContext(<<>>, DefaultLimit)]
    /\ usageCall = NoCall
    /\ convs = <<>>
    /\ now = 0
    /\ listCall = NoCall
    /\ chat = [h \in Ops |-> Idle]
    /\ usageLog = <<>>
    /\ conn = NotCalled
    /\ users = InitialUsers
    /\ cmd = [h \in Ops |-> Idle]
    /\ listeners = <<>>
    /\ pending = {}

NextClient ==
    \E t \in Ops :
       \/ \E c \in ConversationIds : SendLoad(t, c)
       \/ SendRequest(t)
       \/ \E c \in ConversationIds, model \in ModelIds : UpdateLoad(t, c, model)
       \/ UpdateSave(t)
       \/ UpdateSetClient(t)
       \/ \E userId \in TelegramIds, model \in ModelIds :
              CreateFindUser(t, userId, model)
       \/ CreateInsert(t)
       \/ Throw(t)

SpecClient == InitClient /\ [][NextClient]_vars

----------------------------------------------------------------------------
\* getContext on the message list of a document, of every length up to
\* MaxCtxLen and with every limit up to MaxLimit

CtxPush ==
    /\ Len(ctxMessages) < MaxCtxLen
    /\ ctxMessages' = Append(ctxMessages,
                             UserMessage(Len(ctxMessages) + 1,
                                         "openai/o3-mini"))
    /\ UNCHANGED <<ctxCall, coreVars, usageVars, listVars, chatVars, moreVars>>

CtxGetContext(limit) ==
    /\ ctxCall' = [messages |-> ctxMessages, limit |-> limit,
                   returned |-> GetContext(ctxMessages, limit)]
    /\ UNCHANGED <<ctxMessages, coreVars, usageVars, listVars, chatVars,
                   moreVars>>

NextContext == CtxPush \/ \E limit \in 0 .. MaxLimit : CtxGetContext(limit)

SpecContext == Init /\ [][NextContext]_vars

----------------------------------------------------------------------------
\* The usage ledger on its own: records written by trackUsage for every
\* owner, model and generation statistics, and the two aggregations run on
\* every ledger of up to MaxLedger records.

\* usageService.trackUsage(userId, conversationId, model, tokens, cost)
UsageTrack(userId, model, stats) ==
    /\ Len(ledger) < MaxLedger
    /\ ledger' = Append(ledger,
          UsageRecord(userId, userId, model,
                      [prompt |-> stats.tokens_prompt,
                       completion |-> stats.tokens_completion,
                       total |-> stats.tokens_prompt + stats.tokens_completion],
                      stats.total_cost, 0))
    /\ UNCHANGED <<orchVars, sideVars>>

\* usageService.getUserUsage(userId)
UsageGetUserUsage(userId) ==
    /\ usageCall' = [kind |-> "getUserUsage", userId |-> userId,
                     ledger |-> ledger,
                     returned |-> GetUserUsage(ledger, userId)]
    /\ UNCHANGED <<coreVars, ctxVars, listVars, chatVars, moreVars>>

\* usageService.getGlobalStats()
UsageGetGlobalStats ==
    /\ usageCall' = [kind |-> "getGlobalStats", ledger |-> ledger,
                     returned |-> GetGlobalStats(ledger)]
    /\ UNCHANGED <<coreVars, ctxVars, listVars, chatVars, moreVars>>

NextUsage ==
    \/ \E userId \in KnownUsers, model \in AVAILABLE_MODELS,
          stats \in GenerationStats : UsageTrack(userId, model, stats)
    \/ \E userId \in TelegramIds : UsageGetUserUsage(userId)
    \/ UsageGetGlobalStats

SpecUsage == Init /\ [][NextUsage]_vars

----------------------------------------------------------------------------
\* getUserConversations on a collection of up to MaxConvs conversation
\* documents, of which only the fields the query reads are kept: _id, userId
\* and lastMessageAt.

\* The order in which find() meets the documents: the natural order or its
\* reverse (the order among equal sort keys is not specified).
Scan(docs, reverse) ==
    IF reverse THEN [i \in DOMAIN docs |-> docs[Len(docs) + 1 - i]] ELSE docs

\* Insert that puts the older document first (fault seeded for C20).
Insert_Ascending(sorted, d) ==
    LET k == Cardinality({i \in DOMAIN sorted :
                            sorted[i].lastMessageAt <= d.lastMessageAt})
    IN SubSeq(sorted, 1, k) \o <<d>> \o SubSeq(sorted, k + 1, Len(sorted))

\* One step of sort({ lastMessageAt: -1 }): d goes behind the documents
\* that are not older than it.
Insert(sorted, d) ==
    LET k == Cardinality({i \in DOMAIN sorted :
                            sorted[i].lastMessageAt >= d.lastMessageAt})
    IN SubSeq(sorted, 1, k) \o <<d>> \o SubSeq(sorted, k + 1, Len(sorted))

\* sort({ lastMessageAt: -1 })
RECURSIVE SortByLastMessageAt(_)
SortByLastMessageAt(docs) ==
    IF docs = <<>> THEN <<>>
    ELSE Insert(SortByLastMessageAt(SubSeq(docs, 1, Len(docs) - 1)),
                docs[Len(docs)])

\* Conversation.findByUserId(userId): find({ userId }).sort(...)
FindByUserId(docs, userId, reverse) ==
    SortByLastMessageAt(
        SelectSeq(Scan(docs, reverse), LAMBDA d : d.userId = userId))

\* The clock advances between two readings of new Date() / Date.now.
ListTick ==
    /\ now < MaxClock
    /\ now' = now + 1
    /\ listCall' = NoCall
    /\ UNCHANGED <<convs, coreVars, ctxVars, usageVars, chatVars, moreVars>>

\* Conversation.create for a known user: lastMessageAt defaults to Date.now.
ListCreate(userId) ==
    /\ Len(convs) < MaxConvs
    /\ convs' = Append(convs, [id |-> Len(convs) + 1, userId |-> userId,
                               lastMessageAt |-> now])
    /\ listCall' = NoCall
    /\ UNCHANGED <<now, coreVars, ctxVars, usageVars, chatVars, moreVars>>

\* A save() with modified messages (addMessage, clearHistory): the pre-save
\* hook sets lastMessageAt to new Date().
ListSaveMessages(i) ==
    /\ i \in DOMAIN convs
    /\ convs' = [convs EXCEPT ![i].lastMessageAt = now]
    /\ listCall' = NoCall
    /\ UNCHANGED <<now, coreVars, ctxVars, usageVars, chatVars, moreVars>>

\* conversationService.getUserConversations(userId); the returned array is
\* the caller's from then on, listCall keeps it until the next step.
ListGetUserConversations(userId, reverse) ==
    /\ listCall' =
          IF userId \in KnownUsers
          THEN [kind |-> "getUserConversations", userId |-> userId,
                returned |-> FindByUserId(convs, userId, reverse)]
          ELSE [kind |-> "getUserConversations", userId |-> userId,
                error |-> Rethrown("getUserConversations", "NOT_FOUND")]
    /\ UNCHANGED <<convs, now, coreVars, ctxVars, usageVars, chatVars,
                   moreVars>>

NextList ==
    \/ ListTick
    \/ \E userId \in KnownUsers : ListCreate(userId)
    \/ \E i \in 1 .. MaxConvs : ListSaveMessages(i)
    \/ \E userId \in TelegramIds, reverse \in BOOLEAN :
          ListGetUserConversations(userId, reverse)

SpecList == Init /\ [][NextList]_vars

----------------------------------------------------------------------------
\* The message handler of the bot controller on the conversation collection
\* of SpecList: text messages and /newchat commands of the Telegram users,
\* handler runs overlapping, with the timestamps that the writes of a turn
\* leave.  Of a turn only what the listing and the rate limit read is kept:
\* lastMessageAt of the conversation and the usage record with its
\* timestamp.  The clock counts milliseconds.

\* The token totals a turn may report
ChatTokens == {40000, 60000}

\* checkRateLimits: const hourlyLimit = 100000, and the 60 * 60 * 1000 ms
\* of hourAgo
hourlyLimit == 100000
Hour == 3600000

\* usageService.checkRateLimits(userId) when Date.now() reads clock
CheckRateLimits(records, userId, clock) ==
    LET recentUsage == SelectSeq(records,
                           LAMBDA u : /\ u.userId = userId
                                      /\ u.timestamp >= clock - Hour)
        totalTokens == Sum([i \in DOMAIN recentUsage |->
                               recentUsage[i].tokens.total])
    IN totalTokens < hourlyLimit

\* The conversation of userId that was created last (documents are kept in
\* the order of their creation)
MostRecentlyCreated(docs, userId) ==
    LET own == SelectSeq(docs, LAMBDA d : d.userId = userId)
    IN own[Len(own)].id

Running(h) == chat[h].pc # "idle"

\* on('message') with a text that is not a command, from a whitelisted
\* user: checkAccess passes and handleMessage starts.  (For any other user
\* checkAccess throws and the handler ends where it began.)
ChatMessage(h, userId) ==
    /\ ~Running(h)
    /\ Len(usageLog) + Cardinality({g \in Ops : Running(g)}) < MaxLedger
    /\ chat' = [chat EXCEPT ![h] = [pc |-> "list", userId |-> userId]]
    /\ UNCHANGED <<usageLog, coreVars, ctxVars, usageVars, listVars, moreVars>>

\* conversations = await getUserConversations(msg.from.id); without a
\* conversation the handler replies and returns, otherwise it goes on to
\* sendMessage(conversations[0].id, msg.text).  newest and allowed are
\* history: the conversation created last, and what checkRateLimits would
\* return, at this moment.
ChatGetUserConversations(h, reverse) ==
    /\ chat[h].pc = "list"
    /\ LET conversations == FindByUserId(convs, chat[h].userId, reverse)
       IN chat' = [chat EXCEPT ![h] =
              IF Len(conversations) = 0 THEN Idle
              ELSE [pc |-> "send", userId |-> chat[h].userId,
                    target |-> conversations[1].id,
                    newest |-> MostRecentlyCreated(convs, chat[h].userId),
                    allowed |-> CheckRateLimits(usageLog, chat[h].userId,
                                                now)]]
    /\ UNCHANGED <<usageLog, coreVars, ctxVars, usageVars, listVars, moreVars>>

\* sendMessage up to the answer of the provider
ChatResponse(h, total) ==
    /\ chat[h].pc = "send"
    /\ chat' = [chat EXCEPT ![h] =
                  [pc |-> "save_user", tokens |-> [total |-> total]] @@ @]
    /\ UNCHANGED <<usageLog, coreVars, ctxVars, usageVars, listVars, moreVars>>

\* sendMessage fails at the provider: nothing is written, the handler ends.
ChatThrow(h) ==
    /\ chat[h].pc = "send"
    /\ chat' = [chat EXCEPT ![h] = Idle]
    /\ UNCHANGED <<usageLog, coreVars, ctxVars, usageVars, listVars, moreVars>>

\* addMessage(userMessage) and addMessage(assistantMessage): each save sets
\* lastMessageAt of the target to new Date().
ChatSave(h) ==
    /\ chat[h].pc \in {"save_user", "save_assistant"}
    /\ convs' = [convs EXCEPT ![chat[h].target].lastMessageAt = now]
    /\ chat' = [chat EXCEPT ![h].pc =
                  IF @ = "save_user" THEN "save_assistant" ELSE "track"]
    /\ listCall' = NoCall
    /\ UNCHANGED <<now, usageLog, coreVars, ctxVars, usageVars, moreVars>>

\* trackUsage: Usage.create with timestamp: new Date(); sendMessage
\* returns, the handler sends the reply and ends.
ChatTrackUsage(h) ==
    /\ chat[h].pc = "track"
    /\ usageLog' = Append(usageLog, [userId |-> chat[h].userId,
                                     tokens |-> chat[h].tokens,
                                     timestamp |-> now])
    /\ chat' = [chat EXCEPT ![h] = Idle]
    /\ UNCHANGED <<coreVars, ctxVars, usageVars, listVars, moreVars>>

\* handleNewChat of a whitelisted user, env.defaultModel being a model of
\* the catalog: createConversation inserts the document, which is the one
\* write of the handler.
ChatNewChat(userId) == ListCreate(userId)

\* An hour goes by between two readings of the clock.
ChatHourPasses ==
    /\ now < MaxClock
    /\ now' = now + Hour
    /\ listCall' = NoCall
    /\ UNCHANGED <<convs, coreVars, ctxVars, usageVars, chatVars, moreVars>>

NextChat ==
    \/ ListTick
    \/ ChatHourPasses
    \/ \E userId \in KnownUsers : ChatNewChat(userId)
    \/ \E h \in Ops :
          \/ \E userId \in KnownUsers : ChatMessage(h, userId)
          \/ \E reverse \in BOOLEAN : ChatGetUserConversations(h, reverse)
          \/ \E total \in ChatTokens : ChatResponse(h, total)
          \/ ChatThrow(h)
          \/ ChatSave(h)
          \/ ChatTrackUsage(h)

SpecChat == Init /\ [][NextChat]_vars

----------------------------------------------------------------------------
\* connectDB (config/db.config.ts): the retry loop around mongoose.connect.
\* conn.attempts is history: the outcome of every attempt made so far.

\* let retries = 5
Retries == 5

\* What a rejected mongoose.connect throws
ConnectErrors == {"MongooseServerSelectionError", "MongoNetworkError"}

\* connectDB(): the listeners are registered, the loop is entered and the
\* first mongoose.connect is awaited.
DbConnect ==
    /\ conn.pc = "idle"
    /\ conn' = [pc |-> "connecting", retries |-> Retries, attempts |-> <<>>]
    /\ UNCHANGED <<coreVars, ctxVars, usageVars, listVars, chatVars,
                   userVars, botVars>>

\* mongoose.connect resolves: break, and connectDB returns.
DbConnected ==
    /\ conn.pc = "connecting"
    /\ conn' = [conn EXCEPT !.pc = "returned",
                            !.attempts = Append(@, "connected")]
    /\ UNCHANGED <<coreVars, ctxVars, usageVars, listVars, chatVars,
                   userVars, botVars>>

\* DbRejected that never throws: it waits and lets the loop condition end
\* the loop (fault seeded for C39).
DbRejected_NoThrow(error) ==
    /\ conn.pc = "connecting"
    /\ conn' = [conn EXCEPT !.pc = "waiting", !.retries = @ - 1,
                            !.attempts = Append(@, error)]
    /\ UNCHANGED <<coreVars, ctxVars, usageVars, listVars, chatVars,
                   userVars, botVars>>

\* mongoose.connect rejects: retries--, then the error is thrown when no
\* retry is left, and the 2 s timer is awaited otherwise.
DbRejected(error) ==
    /\ conn.pc = "connecting"
    /\ conn' = IF conn.retries - 1 = 0
               THEN [pc |-> "thrown", retries |-> 0,
                     attempts |-> Append(conn.attempts, error),
                     error |-> error]
               ELSE [conn EXCEPT !.pc = "waiting", !.retries = @ - 1,
                                 !.attempts = Append(@, error)]
    /\ UNCHANGED <<coreVars, ctxVars, usageVars, listVars, chatVars,
                   userVars, botVars>>

\* The timer fires: while (retries > 0) is tested and the next attempt is
\* made, or the loop ends.
DbRetry ==
    /\ conn.pc = "waiting"
    /\ conn' = [conn EXCEPT !.pc = IF conn.retries > 0 THEN "connecting"
                                   ELSE "returned"]
    /\ UNCHANGED <<coreVars, ctxVars, usageVars, listVars, chatVars,
                   userVars, botVars>>

DbSettle == DbConnected \/ \E error \in ConnectErrors : DbRejected(error)

NextDB == DbConnect \/ DbSettle \/ DbRetry

SpecDB == Init /\ [][NextDB]_vars

\* mongoose.connect settles (serverSelectionTimeoutMS: 5000 bounds the wait
\* for a server), and the timer of setTimeout fires.
SpecDBFair == SpecDB /\ WF_vars(DbSettle) /\ WF_vars(DbRetry)

----------------------------------------------------------------------------
\* The user collection and the commands that write it: /start, /adduser and
\* /removeuser, handler runs overlapping.  Of a user document the fields
\* telegramId, isAdmin and isWhitelisted are kept; user documents are never
\* deleted.  cmd[h] keeps the command of a run after it has ended.

\* User.findByTelegramId(telegramId): findOne, 0 standing for null
FindByTelegramId(docs, telegramId) ==
    IF \E i \in DOMAIN docs : docs[i].telegramId = telegramId
    THEN CHOOSE i \in DOMAIN docs :
            /\ docs[i].telegramId = telegramId
            /\ \A j \in 1 .. i - 1 : docs[j].telegramId # telegramId
    ELSE 0

\* hasAccess(): this.isWhitelisted || this.isAdmin
HasAccess(user) == user.isWhitelisted \/ user.isAdmin

\* userService.checkAccess(telegramId)
CheckAccess(docs, telegramId) ==
    LET i == FindByTelegramId(docs, telegramId)
    IN IF i = 0 THEN FALSE ELSE HasAccess(docs[i])

\* The document findOrCreateUser creates
NewUser(telegramId) ==
    [telegramId |-> telegramId,
     isAdmin |-> telegramId \in AdminIds,
     isWhitelisted |-> telegramId \in AdminIds]

\* DuplicateKey of a collection without the unique index (fault seeded for
\* C35).
DuplicateKey_Never(docs, telegramId) == FALSE

\* telegramId: { unique: true }: the insert is refused when a document with
\* the telegramId exists.
DuplicateKey(docs, telegramId) ==
    \E i \in DOMAIN docs : docs[i].telegramId = telegramId

\* The user that findOrCreateUser looks up after the admin check: the
\* sender for /start, the user named in the command otherwise
Subject(c) == IF c.kind = "/start" THEN c.from ELSE c.target

\* What a handler run goes on to once checkAccess has passed: the handler
\* of its command
AfterAccess(c) ==
    CASE c.kind = "/newchat" -> "create"
      [] c.kind = "/changemodel" -> "list"
      [] OTHER -> "admin"

Ended(c, at, error) ==
    [pc |-> at, kind |-> c.kind, from |-> c.from, target |-> c.target,
     error |-> error]

othersOfUsers ==
    <<coreVars, ctxVars, usageVars, listVars, chatVars, dbVars, botVars>>

\* on('message') with a command: /start goes to handleStart and its
\* findOrCreateUser at once, every other command to checkAccess first.
UserCommand(h, kind, from, target) ==
    /\ cmd[h].pc = "idle"
    /\ cmd' = [cmd EXCEPT ![h] =
                 [pc |-> IF kind = "/start" THEN "find" ELSE "access",
                  kind |-> kind, from |-> from, target |-> target]]
    /\ UNCHANGED <<users, othersOfUsers>>

\* await this.checkAccess(msg): AUTHORIZATION is thrown for a sender whose
\* access check is false, and handleError replies.
UserCheckAccess(h) ==
    /\ cmd[h].pc = "access"
    /\ cmd' = [cmd EXCEPT ![h] =
                 IF CheckAccess(users, cmd[h].from)
                 THEN [@ EXCEPT !.pc = AfterAccess(cmd[h])]
                 ELSE Ended(@, "failed", "AUTHORIZATION")]
    /\ UNCHANGED <<users, othersOfUsers>>

\* UserAdminCheck that lets every sender through (fault seeded for C33).
UserAdminCheck_Anyone(h) ==
    /\ cmd[h].pc = "admin"
    /\ cmd' = [cmd EXCEPT ![h].pc =
                 IF cmd[h].kind = "/adduser" THEN "find" ELSE "wl_find"]
    /\ UNCHANGED <<users, othersOfUsers>>

\* admin = await findOrCreateUser(msg.from.id, ...), which finds the
\* document that checkAccess has found; if (!admin.isAdmin) the handler
\* replies and returns.
UserAdminCheck(h) ==
    /\ cmd[h].pc = "admin"
    /\ LET admin == users[FindByTelegramId(users, cmd[h].from)]
       IN cmd' = [cmd EXCEPT ![h] =
                    IF ~admin.isAdmin THEN Ended(@, "done", "none")
                    ELSE [@ EXCEPT !.pc = IF cmd[h].kind = "/adduser"
                                          THEN "find" ELSE "wl_find"]]
    /\ UNCHANGED <<users, othersOfUsers>>

\* findOrCreateUser: user = await User.findByTelegramId(telegramId)
UserFind(h) ==
    /\ cmd[h].pc = "find"
    /\ cmd' = [cmd EXCEPT ![h] =
                 IF FindByTelegramId(users, Subject(@)) = 0
                 THEN [@ EXCEPT !.pc = "create"]
                 ELSE IF @.kind = "/start" THEN Ended(@, "done", "none")
                 ELSE [@ EXCEPT !.pc = "wl_find"]]
    /\ UNCHANGED <<users, othersOfUsers>>

\* findOrCreateUser: user = await User.create({...}); a refused insert is
\* rethrown as DATABASE by the catch block.
UserCreate(h) ==
    /\ cmd[h].pc = "create"
    /\ IF DuplicateKey(users, Subject(cmd[h]))
       THEN /\ cmd' = [cmd EXCEPT ![h] = Ended(@, "failed", "DATABASE")]
            /\ users' = users
       ELSE /\ users' = Append(users, NewUser(Subject(cmd[h])))
            /\ cmd' = [cmd EXCEPT ![h] =
                         IF @.kind = "/start" THEN Ended(@, "done", "none")
                         ELSE [@ EXCEPT !.pc = "wl_find"]]
    /\ UNCHANGED othersOfUsers

\* UserWhitelistFind without the test of user.isAdmin (fault seeded for
\* C34).
UserWhitelistFind_NoAdminTest(h) ==
    /\ cmd[h].pc = "wl_find"
    /\ LET i == FindByTelegramId(users, cmd[h].target)
           value == cmd[h].kind = "/adduser"
       IN cmd' = [cmd EXCEPT ![h] =
                    IF i = 0 THEN Ended(@, "failed", "DATABASE")
                    ELSE [pc |-> "wl_save", kind |-> @.kind, from |-> @.from,
                          target |-> @.target, id |-> i, value |-> value,
                          modified |-> users[i].isWhitelisted # value]]
    /\ UNCHANGED <<users, othersOfUsers>>

\* addToWhitelist / removeFromWhitelist up to the save: the document is
\* looked up; NOT_FOUND for none, AUTHORIZATION for removing an admin, both
\* rethrown as DATABASE; otherwise isWhitelisted is assigned in memory.
UserWhitelistFind(h) ==
    /\ cmd[h].pc = "wl_find"
    /\ LET i == FindByTelegramId(users, cmd[h].target)
           value == cmd[h].kind = "/adduser"
       IN cmd' = [cmd EXCEPT ![h] =
                    IF i = 0 THEN Ended(@, "failed", "DATABASE")
                    ELSE IF @.kind = "/removeuser" /\ users[i].isAdmin
                    THEN Ended(@, "failed", "DATABASE")
                    ELSE [pc |-> "wl_save", kind |-> @.kind, from |-> @.from,
                          target |-> @.target, id |-> i, value |-> value,
                          modified |-> users[i].isWhitelisted # value]]
    /\ UNCHANGED <<users, othersOfUsers>>

\* await user.save(): $set of isWhitelisted when the assignment changed it,
\* no write otherwise; then the reply.
UserWhitelistSave(h) ==
    /\ cmd[h].pc = "wl_save"
    /\ users' = IF cmd[h].modified
                THEN [users EXCEPT ![cmd[h].id].isWhitelisted = cmd[h].value]
                ELSE users
    /\ cmd' = [cmd EXCEPT ![h] = Ended(@, "done", "none")]
    /\ UNCHANGED othersOfUsers

UserStep(h) ==
    \/ UserCheckAccess(h)
    \/ UserAdminCheck(h)
    \/ UserFind(h)
    \/ UserCreate(h)
    \/ UserWhitelistFind(h)
    \/ UserWhitelistSave(h)

NextUsers ==
    \E h \in Ops :
        \/ \E from \in TelegramIds : UserCommand(h, "/start", from, from)
        \/ \E kind \in {"/adduser", "/removeuser"},
              from \in TelegramIds, target \in TelegramIds :
                 UserCommand(h, kind, from, target)
        \/ UserStep(h)

SpecUsers == Init /\ [][NextUsers]_vars

----------------------------------------------------------------------------
\* /newchat, /changemodel and the model selection that follows it, next to
\* /removeuser: handler runs overlapping, on the conversation collection of
\* SpecList (documents here keep their model as well) and the user
\* collection of SpecUsers.  A listener is kept as the conversation id and
\* the chat its closure holds.

\* env.defaultModel, configured to a model of the catalog
DefaultModel == "deepseek/deepseek-chat:free"

\* The conversations the bot starts with: those of Init's store
InitialConversations ==
    << [id |-> 1, userId |-> 1, lastMessageAt |-> 0,
        model |-> "deepseek/deepseek-chat:free"],
       [id |-> 2, userId |-> 2, lastMessageAt |-> 0,
        model |-> "openai/o3-mini"] >>

InitBot ==
    /\ store = (1 :> NewConversation(1, "deepseek/deepseek-chat:free"))
               @@ (2 :> NewConversation(2, "openai/o3-mini"))
    /\ ledger = <<>>
    /\ currentModel = "deepseek/deepseek-chat:free"
    /\ pc = [t \in Ops |-> "idle"]
    /\ call = [t \in Ops |-> NoCall]
    /\ doc = [t \in Ops |-> NoDoc]
    /\ request = [t \in Ops |-> NoDoc]
    /\ result = [t \in Ops |-> NoDoc]
    /\ log = [t \in Ops |-> <<>>]
    /\ ctxMessages = <<>>
    /\ ctxCall = [messages |-> <<>>, limit |-> DefaultLimit,
                  returned |-> GetContext(<<>>, DefaultLimit)]
    /\ usageCall = NoCall
    /\ convs = InitialConversations
    /\ now = 0
    /\ listCall = NoCall
    /\ chat = [h \in Ops |-> Idle]
    /\ usageLog = <<>>
    /\ conn = NotCalled
    /\ users = InitialUsers
    /\ cmd = [h \in Ops |-> Idle]
    /\ listeners = <<>>
    /\ pending = {}

\* The ids conversations[0] of getUserConversations(userId) may have: the
\* head of the listing in either order of scanning, none without a
\* conversation
ActiveConversations(docs, userId) ==
    {FindByUserId(docs, userId, reverse)[1].id :
        reverse \in {r \in BOOLEAN : FindByUserId(docs, userId, r) # <<>>}}

othersOfBot == <<coreVars, ctxVars, usageVars, listCall, chatVars, dbVars>>

\* handleNewChat: createConversation(msg.from.id, env.defaultModel) looks
\* the user up, sets the client's model and inserts the document.
BotNewChat(h) ==
    /\ cmd[h].pc = "create"
    /\ Len(convs) < MaxConvs
    /\ convs' = Append(convs, [id |-> Len(convs) + 1,
                               userId |-> cmd[h].from,
                               lastMessageAt |-> now,
                               model |-> DefaultModel])
    /\ cmd' = [cmd EXCEPT ![h] = Ended(@, "done", "none")]
    /\ UNCHANGED <<now, users, botVars, othersOfBot>>

\* handleChangeModel: conversations = await getUserConversations(...);
\* without a conversation it replies and returns, otherwise it awaits the
\* sendMessage of the keyboard.
BotGetUserConversations(h, reverse) ==
    /\ cmd[h].pc = "list"
    /\ LET conversations == FindByUserId(convs, cmd[h].from, reverse)
       IN cmd' = [cmd EXCEPT ![h] =
                    IF Len(conversations) = 0 THEN Ended(@, "done", "none")
                    ELSE [pc |-> "keyboard", kind |-> @.kind,
                          from |-> @.from, target |-> @.target,
                          conversation |-> conversations[1].id]]
    /\ UNCHANGED <<convs, now, users, botVars, othersOfBot>>

\* this.bot.on('callback_query', ...): one more listener, whose closure
\* holds conversations[0].id and msg.chat.id; the handler returns.
BotOn(h) ==
    /\ cmd[h].pc = "keyboard"
    /\ listeners' = Append(listeners,
                           [conversationId |-> cmd[h].conversation,
                            chat |-> cmd[h].from])
    /\ cmd' = [cmd EXCEPT ![h] = Ended(@, "done", "none")]
    /\ UNCHANGED <<convs, now, users, pending, othersOfBot>>

\* A user who was sent a keyboard presses a model button: the emitter calls
\* every registered listener with the query, and each runs up to its await
\* of updateModel(conversations[0].id, modelId).  by, access and active are
\* history: who pressed, and the access check and the active conversation
\* of that user at this moment.
BotCallbackQuery(by, modelId) ==
    /\ pending = {}
    /\ \E i \in DOMAIN listeners : listeners[i].chat = by
    /\ pending' = {[listener |-> i,
                    conversationId |-> listeners[i].conversationId,
                    model |-> modelId,
                    by |-> by,
                    access |-> CheckAccess(users, by),
                    active |-> ActiveConversations(convs, by)] :
                   i \in DOMAIN listeners}
    /\ UNCHANGED <<convs, now, users, cmd, listeners, othersOfBot>>

\* updateModel of a listener run: the conversation is loaded, its model is
\* assigned and saved; the listener answers the query and ends.
BotUpdateModel(run) ==
    /\ run \in pending
    /\ convs' = [convs EXCEPT ![run.conversationId].model = run.model]
    /\ pending' = pending \ {run}
    /\ UNCHANGED <<now, users, cmd, listeners, othersOfBot>>

NextBot ==
    \/ ListTick
    \/ \E h \in Ops :
          \/ \E kind \in {"/newchat", "/changemodel"}, from \in TelegramIds :
                UserCommand(h, kind, from, from)
          \/ \E from \in TelegramIds, target \in TelegramIds :
                UserCommand(h, "/removeuser", from, target)
          \/ UserCheckAccess(h)
          \/ UserAdminCheck(h)
          \/ UserWhitelistFind(h)
          \/ UserWhitelistSave(h)
          \/ BotNewChat(h)
          \/ \E reverse \in BOOLEAN : BotGetUserConversations(h, reverse)
          \/ BotOn(h)
    \/ \E by \in TelegramIds, modelId \in AVAILABLE_MODELS :
          BotCallbackQuery(by, modelId)
    \/ \E run \in pending : BotUpdateModel(run)

SpecBot == InitBot /\ [][NextBot]_vars

----------------------------------------------------------------------------
\* Properties

\* Sum of tokens.total, and of cost, over the messages that carry tokens.
RECURSIVE SumTokensUpTo(_, _)
SumTokensUpTo(messages, n) ==
    IF n = 0 THEN 0
    ELSE SumTokensUpTo(messages, n - 1)
         + (IF "tokens" \in DOMAIN messages[n]
            THEN messages[n].tokens.total ELSE 0)

RECURSIVE SumCostUpTo(_, _)
SumCostUpTo(messages, n) ==
    IF n = 0 THEN 0
    ELSE SumCostUpTo(messages, n - 1)
         + (IF "tokens" \in DOMAIN messages[n] THEN messages[n].cost ELSE 0)

TotalsMatch(c) ==
    /\ store[c].totalTokens
         = SumTokensUpTo(store[c].messages, Len(store[c].messages))
    /\ store[c].totalCost
         = SumCostUpTo(store[c].messages, Len(store[c].messages))

\* The stored messages and usage records written by call t.
MessagesOf(t) ==
    {<<c, i>> \in (DOMAIN store) \X (1 .. 2 * NOps) :
        i <= Len(store[c].messages) /\ store[c].messages[i].content = t}

RecordsOf(t) == {i \in DOMAIN ledger : ledger[i].op = t}

IsSend(t) == call[t].kind = "sendMessage"

\* C1: when the calls run one after another, every stored conversation has
\* totalTokens equal to the sum of tokens.total, and totalCost equal to the
\* sum of cost, over its stored messages that carry token data.
C1_TotalsMatchMessages == \A c \in DOMAIN store : TotalsMatch(c)

\* Two exchanges stored in one conversation, with their tokens counted.
C1_Witness ==
    \E c \in DOMAIN store :
       /\ Len(store[c].messages) = 4
       /\ store[c].totalTokens >= 4
       /\ \A t \in Ops : pc[t] = "done"

\* C2: a sendMessage whose provider call failed has stored no message in
\* any conversation and has written no usage record.
ProviderFailed(t) ==
    IsSend(t) /\ pc[t] = "failed" /\ log[t] = <<"load", "request">>

C2_ProviderFailureStoresNothing ==
    \A t \in Ops : ProviderFailed(t) => MessagesOf(t) = {} /\ RecordsOf(t) = {}

\* A provider failure of one call beside a completed exchange of another
\* call on the same conversation.
C2_Witness ==
    \E t \in Ops, o \in Ops :
       /\ ProviderFailed(t)
       /\ IsSend(o) /\ pc[o] = "done"
       /\ call[o].conversationId = call[t].conversationId
       /\ Len(store[call[t].conversationId].messages) = 2

\* C3: a sendMessage that returned has appended exactly two messages, the
\* user message and then the assistant message, and has written exactly one
\* usage record, whose tokens.total is the total_tokens the client returned.
C3_SuccessfulTurn ==
    \A t \in Ops :
       (IsSend(t) /\ pc[t] = "done") =>
          /\ log[t] = <<"load", "request", "response",
                        "user", "assistant", "usage">>
          /\ Cardinality(MessagesOf(t)) <= 2
          /\ \A x \in MessagesOf(t), y \in MessagesOf(t) :
                (/\ store[x[1]].messages[x[2]].role = "user"
                 /\ store[y[1]].messages[y[2]].role = "assistant")
                => (x[1] = y[1] /\ x[2] < y[2])
          /\ Cardinality(RecordsOf(t)) = 1
          /\ \A i \in RecordsOf(t) :
                ledger[i].tokens.total = result[t].usage.total_tokens

\* A returned sendMessage whose two messages are both stored.
C3_Witness ==
    \E t \in Ops :
       /\ IsSend(t) /\ pc[t] = "done"
       /\ Cardinality(MessagesOf(t)) = 2
       /\ result[t].usage.total_tokens = 3

\* C4: a sendMessage that failed, at whichever step, has left no message of
\* its own in any conversation and no usage record of its own.
C4_FailedTurnStoresNothing ==
    \A t \in Ops :
       (IsSend(t) /\ pc[t] = "failed") =>
          MessagesOf(t) = {} /\ RecordsOf(t) = {}

\* C5: once two sendMessage calls on the same conversation have both
\* returned, the stored totals of that conversation equal the sums over its
\* stored messages, also when the two calls overlapped.
C5_NoLostUpdate ==
    \A a \in Ops, b \in Ops :
       (/\ a # b
        /\ IsSend(a) /\ pc[a] = "done"
        /\ IsSend(b) /\ pc[b] = "done"
        /\ call[a].conversationId = call[b].conversationId)
       => TotalsMatch(call[a].conversationId)

\* C6: the user message and the assistant message of a returned sendMessage
\* are neighbours in the stored message list, also when another call on the
\* same conversation overlapped with it.
C6_ExchangeAdjacent ==
    \A t \in Ops :
       (IsSend(t) /\ pc[t] = "done") =>
          \A x \in MessagesOf(t), y \in MessagesOf(t) :
             (/\ store[x[1]].messages[x[2]].role = "user"
              /\ store[y[1]].messages[y[2]].role = "assistant")
             => y[2] = x[2] + 1

\* C7: the model named in the request a sendMessage posted is the model of
\* the conversation document that call loaded, whatever the other calls
\* have done to the client's current model since.
C7_RequestModel ==
    \A t \in Ops :
       request[t] # NoDoc => request[t].model = doc[t].model

\* Two calls wait for the provider with requests for different models, so
\* the client's current model is not the model of one of them.
C7_Witness ==
    \E a \in Ops, b \in Ops :
       /\ pc[a] = "calling" /\ pc[b] = "calling"
       /\ request[a].model # request[b].model
       /\ currentModel # request[a].model

\* C8: getContext(limit) on n messages returns the last min(limit, n) of
\* them, in their stored order, for every limit >= 0.
Min(a, b) == IF a < b THEN a ELSE b

LastMessages(messages, k) ==
    [i \in 1 .. k |-> messages[Len(messages) - k + i]]

C8_ContextIsLastMin ==
    ctxCall.returned
      = LastMessages(ctxCall.messages,
                     Min(ctxCall.limit, Len(ctxCall.messages)))

\* C9: when the calls run one after another, the step that completes a
\* clearHistory leaves the conversation with an empty context and with
\* totalTokens and totalCost 0.
ClearCompletes(t) == pc[t] = "clear_loaded" /\ pc'[t] = "done"

C9_ClearEmpties ==
    [][\A t \in Ops :
          ClearCompletes(t) =>
             LET after == store'[call[t].conversationId]
             IN /\ GetContext(after.messages, DefaultLimit) = <<>>
                /\ after.totalTokens = 0
                /\ after.totalCost = 0]_vars

\* A clearHistory has returned after a completed exchange on the same
\* conversation, which is empty now.
C9_Witness ==
    \E t \in Ops, o \in Ops :
       /\ call[t].kind = "clearHistory" /\ pc[t] = "done"
       /\ IsSend(o) /\ pc[o] = "done"
       /\ call[o].conversationId = call[t].conversationId
       /\ store[call[t].conversationId].messages = <<>>
       /\ store[call[t].conversationId].totalTokens = 0

\* C10: no step removes a conversation from the store or changes its owner,
\* and the step that completes a clearHistory leaves its model as it was.
C10_ClearKeepsConversation ==
    [][/\ \A c \in DOMAIN store :
             c \in DOMAIN store' /\ store'[c].userId = store[c].userId
       /\ \A t \in Ops :
             ClearCompletes(t) =>
                store'[call[t].conversationId].model
                  = store[call[t].conversationId].model]_vars

\* A clearHistory and an updateModel on the same conversation have both
\* returned, and the conversation carries the model the update gave it.
C10_Witness ==
    \E t \in Ops, o \in Ops :
       /\ call[t].kind = "clearHistory" /\ pc[t] = "done"
       /\ call[o].kind = "updateModel" /\ pc[o] = "done"
       /\ call[o].conversationId = call[t].conversationId
       /\ store[call[t].conversationId].model = call[o].model
       /\ call[o].conversationId = 1
       /\ call[o].model = "openai/o3-mini"

\* C11: an updateModel with an identifier outside the catalog, on a stored
\* conversation, fails with a ModelError and the conversation's stored model
\* is not that identifier.
InvalidUpdate(t) ==
    /\ call[t].kind = "updateModel"
    /\ call[t].model \notin AVAILABLE_MODELS
    /\ call[t].conversationId \in DOMAIN store

C11_InvalidModelRejected ==
    \A t \in Ops :
       (InvalidUpdate(t) /\ pc[t] = "failed") =>
          /\ ErrorOf(t) = "MODEL"
          /\ store[call[t].conversationId].model # call[t].model

\* Sums taken record by record over the first n records of a ledger, of
\* the records of one owner whose model is one of models.
RECURSIVE OwnerTokens(_, _, _, _)
OwnerTokens(l, n, owner, models) ==
    IF n = 0 THEN 0
    ELSE OwnerTokens(l, n - 1, owner, models)
         + (IF l[n].userId = owner /\ l[n].model \in models
            THEN l[n].tokens.total ELSE 0)

RECURSIVE OwnerCost(_, _, _, _)
OwnerCost(l, n, owner, models) ==
    IF n = 0 THEN 0
    ELSE OwnerCost(l, n - 1, owner, models)
         + (IF l[n].userId = owner /\ l[n].model \in models
            THEN l[n].cost ELSE 0)

ModelsOfOwner(l, owner) ==
    {l[i].model : i \in {j \in DOMAIN l : l[j].userId = owner}}

\* C12: getUserUsage returns totalTokens equal to the sum of tokens.total
\* and totalCost equal to the sum of cost over the owner's records, and a
\* modelBreakdown with an entry exactly for each model the owner has a
\* record of, holding the owner's sums for that model; the records of other
\* owners count nowhere.
C12_UserSummary ==
    usageCall.kind = "getUserUsage" =>
       LET l == usageCall.ledger
           owner == usageCall.userId
           r == usageCall.returned
       IN /\ r.totalTokens = OwnerTokens(l, Len(l), owner, AVAILABLE_MODELS)
          /\ r.totalCost = OwnerCost(l, Len(l), owner, AVAILABLE_MODELS)
          /\ DOMAIN r.modelBreakdown = ModelsOfOwner(l, owner)
          /\ \A m \in ModelsOfOwner(l, owner) :
                r.modelBreakdown[m]
                  = [tokens |-> OwnerTokens(l, Len(l), owner, {m}),
                     cost |-> OwnerCost(l, Len(l), owner, {m})]

\* The summary of an owner with two records of one model, taken from a
\* ledger that also holds a record of another owner.
C12_Witness ==
    /\ usageCall.kind = "getUserUsage"
    /\ Len(usageCall.ledger) = 3
    /\ usageCall.userId = 1
    /\ usageCall.ledger[1].userId = 1
    /\ usageCall.ledger[2].userId = 2
    /\ usageCall.ledger[3].userId = 1
    /\ usageCall.ledger[1].model = usageCall.ledger[3].model
    /\ usageCall.returned.totalTokens = 5
    /\ usageCall.returned.totalCost = 3

\* C13: with no matching record the aggregations return, and what they
\* return is zero totals and an empty breakdown: getUserUsage for an owner
\* without records, getGlobalStats on the empty ledger.
C13_NoMatchingRecord ==
    /\ (/\ usageCall.kind = "getUserUsage"
        /\ \A i \in DOMAIN usageCall.ledger :
              usageCall.ledger[i].userId # usageCall.userId)
       => usageCall.returned
            = [totalTokens |-> 0, totalCost |-> 0, modelBreakdown |-> <<>>]
    /\ (usageCall.kind = "getGlobalStats" /\ usageCall.ledger = <<>>)
       => usageCall.returned
            = [totalTokens |-> 0, totalCost |-> 0, activeUsers |-> 0,
               modelUsage |-> <<>>]

\* The summary of an owner without records, taken from a ledger that holds
\* records of the other owners.
C13_Witness ==
    /\ usageCall.kind = "getUserUsage"
    /\ usageCall.userId = 3
    /\ Len(usageCall.ledger) = 2
    /\ usageCall.returned.totalTokens = 0
    /\ DOMAIN usageCall.returned.modelBreakdown = {}

\* C14: no step of a clearHistory call changes the usage ledger: the
\* getUserUsage of every owner and getGlobalStats return after the step what
\* they returned before it.
ClearSteps(t) == call'[t].kind = "clearHistory" /\ pc'[t] # pc[t]

C14_ClearKeepsLedger ==
    [][\A t \in Ops :
          ClearSteps(t) =>
             /\ ledger' = ledger
             /\ \A owner \in KnownUsers :
                   GetUserUsage(ledger', owner) = GetUserUsage(ledger, owner)
             /\ GetGlobalStats(ledger') = GetGlobalStats(ledger)]_vars

\* A clearHistory has emptied a conversation and zeroed its totals, and the
\* owner's usage summary still counts the tokens of the exchange.
C14_Witness ==
    \E t \in Ops :
       /\ call[t].kind = "clearHistory" /\ pc[t] = "done"
       /\ store[call[t].conversationId].messages = <<>>
       /\ store[call[t].conversationId].totalTokens = 0
       /\ GetUserUsage(ledger, store[call[t].conversationId].userId).totalTokens
            = 3
       /\ GetGlobalStats(ledger).activeUsers = 1

\* C15: getGlobalStats reports for each model a users figure equal to the
\* number of distinct owners with a record of that model, and activeUsers
\* equal to the number of distinct (model, owner) pairs of the ledger.
C15_GlobalUsers ==
    usageCall.kind = "getGlobalStats" =>
       LET l == usageCall.ledger
           r == usageCall.returned
       IN /\ DOMAIN r.modelUsage = {l[i].model : i \in DOMAIN l}
          /\ \A m \in DOMAIN r.modelUsage :
                r.modelUsage[m].users
                  = Cardinality({l[i].userId :
                                   i \in {j \in DOMAIN l : l[j].model = m}})
          /\ r.activeUsers
               = Cardinality({<<l[i].model, l[i].userId>> : i \in DOMAIN l})

\* Two owners, one of them with records of both models: three active users.
C15_Witness ==
    /\ usageCall.kind = "getGlobalStats"
    /\ Cardinality({usageCall.ledger[i].userId :
                      i \in DOMAIN usageCall.ledger}) = 2
    /\ usageCall.returned.activeUsers = 3
    /\ \E m \in DOMAIN usageCall.returned.modelUsage :
          usageCall.returned.modelUsage[m].users = 2

\* C16: every step leaves each usage record written so far in its place
\* and as it was.
C16_LedgerAppendOnly ==
    [][/\ Len(ledger') >= Len(ledger)
       /\ \A i \in DOMAIN ledger : ledger'[i] = ledger[i]]_vars

\* A usage record names a model its conversation no longer has after an
\* updateModel that followed the exchange.
C16_Witness ==
    /\ Len(ledger) = 1
    /\ ledger[1].model # store[ledger[1].conversationId].model
    /\ ledger[1].tokens.total = 3

\* C17: a sendMessage that has ended has written one usage record if its
\* provider call returned, and none otherwise.
ProviderReturned(t) == Len(log[t]) >= 3 /\ log[t][3] = "response"

C17_OneRecordPerProviderReturn ==
    \A t \in Ops :
       (IsSend(t) /\ pc[t] \in {"done", "failed"}) =>
          Cardinality(RecordsOf(t)) = (IF ProviderReturned(t) THEN 1 ELSE 0)

\* C18: a createConversation for an id that resolves to no user has failed
\* with a NotFound error, and the store holds no conversation of that id.
UnknownOwner(t) ==
    call[t].kind = "createConversation" /\ call[t].userId \notin KnownUsers

C18_UnknownOwnerNotFound ==
    \A t \in Ops :
       UnknownOwner(t) =>
          /\ pc[t] = "failed"
          /\ ErrorOf(t) = "NOT_FOUND"
          /\ \A c \in DOMAIN store : store[c].userId # call[t].userId

\* C19: a sendMessage on a conversation id that is not in the store has
\* failed with a NotFound error, has sent no request to the provider, and
\* has stored no message and written no usage record.
AbsentConversation(t) ==
    IsSend(t) /\ call[t].conversationId \notin DOMAIN store

C19_AbsentConversationNotFound ==
    \A t \in Ops :
       AbsentConversation(t) =>
          /\ pc[t] = "failed"
          /\ ErrorOf(t) = "NOT_FOUND"
          /\ request[t] = NoDoc /\ log[t] = <<>>
          /\ MessagesOf(t) = {} /\ RecordsOf(t) = {}

\* C20: getUserConversations returns each conversation of the owner once
\* and no other, as it is stored, ordered by non-increasing lastMessageAt.
Returned(c) == "returned" \in DOMAIN c

C20_ListByOwner ==
    Returned(listCall) =>
       LET r == listCall.returned
           own == {i \in DOMAIN convs : convs[i].userId = listCall.userId}
       IN /\ Len(r) = Cardinality(own)
          /\ {r[i] : i \in DOMAIN r} = {convs[i] : i \in own}
          /\ \A i \in DOMAIN r, j \in DOMAIN r :
                i < j => r[i].lastMessageAt >= r[j].lastMessageAt

\* The list of an owner with two conversations, the one created first being
\* the more recently active, beside a conversation of another owner.
C20_Witness ==
    /\ Returned(listCall)
    /\ Len(convs) = 3
    /\ Len(listCall.returned) = 2
    /\ listCall.returned[1].id < listCall.returned[2].id
    /\ listCall.returned[1].lastMessageAt > listCall.returned[2].lastMessageAt

\* C23: every stored message that carries tokens, and every usage record,
\* has tokens.total = tokens.prompt + tokens.completion.
TotalIsSum(tokens) == tokens.total = tokens.prompt + tokens.completion

C23_TokensTotal ==
    /\ \A c \in DOMAIN store :
          \A i \in DOMAIN store[c].messages :
             "tokens" \in DOMAIN store[c].messages[i]
                => TotalIsSum(store[c].messages[i].tokens)
    /\ \A i \in DOMAIN ledger : TotalIsSum(ledger[i].tokens)

\* A stored assistant message and a usage record with 2 prompt tokens and 1
\* completion token.
C23_Witness ==
    /\ \E c \in DOMAIN store :
          /\ Len(store[c].messages) = 2
          /\ store[c].messages[2].tokens.prompt = 2
          /\ store[c].messages[2].tokens.total = 3
    /\ \E i \in DOMAIN ledger :
          ledger[i].tokens.prompt = 2 /\ ledger[i].tokens.total = 3

\* C24: a stored user message carries neither tokens nor cost, and a stored
\* assistant message carries both.
C24_UsageOnAssistantOnly ==
    \A c \in DOMAIN store :
       \A i \in DOMAIN store[c].messages :
          LET m == store[c].messages[i]
          IN /\ m.role = "user"
                => ("tokens" \notin DOMAIN m /\ "cost" \notin DOMAIN m)
             /\ m.role = "assistant"
                => ("tokens" \in DOMAIN m /\ "cost" \in DOMAIN m)

\* A stored exchange whose assistant message carries a cost of 0.
C24_Witness ==
    \E c \in DOMAIN store :
       /\ Len(store[c].messages) = 2
       /\ store[c].messages[1].role = "user"
       /\ store[c].messages[2].role = "assistant"
       /\ store[c].messages[2].cost = 0
       /\ store[c].messages[2].tokens.total = 2

\* C26: the steps of a sendMessage are taken in one order: load, request,
\* response, user message, assistant message, usage record.  A message of
\* the call is stored only after the response, its assistant message only
\* after its user message, and its usage record only after both.
TurnOrder == <<"load", "request", "response", "user", "assistant", "usage">>

C26_PersistenceOrder ==
    \A t \in Ops :
       IsSend(t) =>
          /\ Len(log[t]) <= Len(TurnOrder)
          /\ log[t] = SubSeq(TurnOrder, 1, Len(log[t]))
          /\ MessagesOf(t) # {} => Len(log[t]) >= 4
          /\ \A x \in MessagesOf(t) :
                store[x[1]].messages[x[2]].role = "assistant"
                   => Len(log[t]) >= 5
          /\ RecordsOf(t) # {} => Len(log[t]) = 6

\* A call has stored both its messages and has not yet written its record.
C26_Witness ==
    \E t \in Ops :
       /\ IsSend(t) /\ pc[t] = "track"
       /\ Cardinality(MessagesOf(t)) = 2
       /\ RecordsOf(t) = {}
       /\ log[t] = SubSeq(TurnOrder, 1, 5)

\* C29: the client's current model is an identifier of the catalog in every
\* state, the one its constructor leaves included; a step of a
\* createConversation for a known user with an identifier outside the
\* catalog, where setModel throws, fails the call and leaves it unchanged.
SetModelRefuses(t) ==
    /\ pc'[t] # pc[t]
    /\ call'[t].kind = "createConversation"
    /\ call'[t].userId \in KnownUsers
    /\ call'[t].model \notin AVAILABLE_MODELS

TurnReturns(t) == IsSend(t) /\ pc[t] = "track" /\ pc'[t] = "done"

C25_OneModelPerTurn ==
    [][\A t \in Ops :
          TurnReturns(t) =>
             /\ doc[t].model = request[t].model
             /\ \A x \in MessagesOf(t)' :
                   store'[x[1]].messages[x[2]].model = request[t].model
             /\ RecordsOf(t)' # {}
             /\ \A i \in RecordsOf(t)' :
                   ledger'[i].model = request[t].model]_vars

\* A returned sendMessage whose two stored messages and usage record carry
\* the model the conversation had before an updateModel changed it.
C25_Witness ==
    \E t \in Ops, o \in Ops :
       /\ IsSend(t) /\ pc[t] = "done"
       /\ call[o].kind = "updateModel" /\ pc[o] = "done"
       /\ call[o].conversationId = call[t].conversationId
       /\ Cardinality(MessagesOf(t)) = 2
       /\ \A x \in MessagesOf(t) :
             store[x[1]].messages[x[2]].model # store[x[1]].model
       /\ \A i \in RecordsOf(t) :
             ledger[i].model # store[call[t].conversationId].model

\* C28: a step that does not complete a clearHistory lowers neither the
\* stored totalTokens nor the stored totalCost of any conversation.
C28_TotalsMonotonic ==
    [][(\A t \in Ops : ~ClearCompletes(t)) =>
          \A c \in DOMAIN store :
             /\ store'[c].totalTokens >= store[c].totalTokens
             /\ store'[c].totalCost >= store[c].totalCost]_vars

\* C22: the messages of the request a sendMessage has sent are the last 10
\* messages of the document it loaded (all of them when there are fewer), in
\* their order, followed by its user message; they are 11 at most.
C22_RequestMessages ==
    \A t \in Ops :
       pc[t] = "calling" =>
          /\ request[t].messages
               = LastMessages(doc[t].messages, Min(10, Len(doc[t].messages)))
                 \o <<UserMessage(call[t].content, doc[t].model)>>
          /\ Len(request[t].messages) <= 11

\* A call waits for the provider with the last 10 of the 11 messages it
\* loaded, while the stored conversation has 12 by now.
C22_Witness ==
    \E t \in Ops :
       /\ pc[t] = "calling"
       /\ Len(doc[t].messages) = 11
       /\ Len(store[call[t].conversationId].messages) = 12
       /\ Len(request[t].messages) = 11
       /\ request[t].messages[1] = doc[t].messages[2]
       /\ request[t].messages[11].content = t

\* C27: a sendMessage that has started ends, returned or failed, when
\* every call it awaits is answered or rejected in the end.
C27_TurnEnds ==
    \A t \in Ops :
       (IsSend(t) /\ InFlight(t)) ~> (pc[t] \in {"done", "failed"})

\* One call has returned and another has failed after its provider call
\* had returned.
C27_Witness ==
    \E t \in Ops, o \in Ops :
       /\ IsSend(t) /\ pc[t] = "done"
       /\ IsSend(o) /\ pc[o] = "failed" /\ ProviderReturned(o)


\* C21: a chat message of a user is executed on the conversation of that
\* user that was created last, whatever turns were in flight on older
\* conversations when it was created.
C21_TargetsNewest ==
    \A h \in Ops :
        chat[h].pc \notin {"idle", "list"}
            => chat[h].target = chat[h].newest

\* C30: a turn is served only to a user whose usage records of the last
\* hour sum to less than hourlyLimit tokens.
C30_RateLimited ==
    \A h \in Ops :
        chat[h].pc \in {"save_user", "save_assistant", "track"}
            => chat[h].allowed

\* C38: getGlobalStats and getUserUsage agree on every ledger: the global
\* totals are the sums of the owners' totals, and the global figures of each
\* model are the sums of the owners' figures for it, an absent entry
\* counting as 0; for tokens and for cost.
EntryOf(breakdown, m) ==
    IF m \in DOMAIN breakdown THEN breakdown[m] ELSE [tokens |-> 0, cost |-> 0]

C38_AggregationsAgree ==
    usageCall.kind = "getGlobalStats" =>
       LET l == usageCall.ledger
           g == usageCall.returned
           owners == {l[i].userId : i \in DOMAIN l}
           u == [o \in owners |-> GetUserUsage(l, o)]
       IN /\ g.totalTokens = SumOver([o \in owners |-> u[o].totalTokens],
                                     owners)
          /\ g.totalCost = SumOver([o \in owners |-> u[o].totalCost], owners)
          /\ \A m \in ModelIds :
                /\ EntryOf(g.modelUsage, m).tokens
                     = SumOver([o \in owners |->
                                  EntryOf(u[o].modelBreakdown, m).tokens],
                               owners)
                /\ EntryOf(g.modelUsage, m).cost
                     = SumOver([o \in owners |->
                                  EntryOf(u[o].modelBreakdown, m).cost],
                               owners)

\* Global statistics of a ledger in which two owners have records of the
\* same model and one of them a record of the other model as well.
C38_Witness ==
    /\ usageCall.kind = "getGlobalStats"
    /\ Len(usageCall.ledger) = 3
    /\ \E m \in DOMAIN usageCall.returned.modelUsage :
          /\ usageCall.returned.modelUsage[m].users = 2
          /\ usageCall.returned.modelUsage[m].cost = 6
    /\ Cardinality(DOMAIN usageCall.returned.modelUsage) = 2

\* C36: for every conversation, the usage records that refer to it are at
\* most as many as the assistant messages that were ever appended to it
\* (whether or not a clearHistory has removed them since).
Appended(t, role) == \E k \in DOMAIN log[t] : log[t][k] = role

AssistantAppends(c) ==
    {t \in Ops : /\ IsSend(t)
                 /\ call[t].conversationId = c
                 /\ Appended(t, "assistant")}

RecordsFor(c) == {i \in DOMAIN ledger : ledger[i].conversationId = c}

C36_LedgerNotAhead ==
    \A c \in DOMAIN store :
        Cardinality(RecordsFor(c)) <= Cardinality(AssistantAppends(c))

\* A conversation with one usage record and two assistant messages
\* appended: the second turn has saved its reply and not yet tracked it.
C36_Witness ==
    \E c \in DOMAIN store :
        /\ Cardinality(RecordsFor(c)) = 1
        /\ Cardinality(AssistantAppends(c)) = 2
        /\ \E t \in AssistantAppends(c) : pc[t] = "track"

\* C37: while no turn is in flight on a conversation, its stored message
\* list has even length and its roles alternate user, assistant, starting
\* with user.
CompleteExchanges(messages) ==
    /\ Len(messages) % 2 = 0
    /\ \A i \in DOMAIN messages :
          messages[i].role = IF i % 2 = 1 THEN "user" ELSE "assistant"

TurnInFlight(c) ==
    \E t \in Ops : IsSend(t) /\ call[t].conversationId = c /\ InFlight(t)

C37_CompleteExchanges ==
    \A c \in DOMAIN store :
        ~TurnInFlight(c) => CompleteExchanges(store[c].messages)

\* C39: connectDB makes at most 5 attempts, makes none after one that
\* succeeded, returns exactly when an attempt succeeded and throws exactly
\* when 5 attempts failed, the error of the last one; and once called it
\* ends: it returns or throws.
AttemptsMade == Len(conn.attempts) + (IF conn.pc = "connecting" THEN 1 ELSE 0)

Failed(k) == conn.attempts[k] \in ConnectErrors

ConnectSafe ==
    /\ AttemptsMade <= 5
    /\ \A k \in DOMAIN conn.attempts :
          ~Failed(k) => k = Len(conn.attempts) /\ conn.pc = "returned"
    /\ conn.pc = "returned"
          => Len(conn.attempts) > 0 /\ ~Failed(Len(conn.attempts))
    /\ conn.pc = "thrown"
          => /\ Len(conn.attempts) = 5
             /\ conn.error = conn.attempts[5]
    /\ (Len(conn.attempts) = 5 /\ \A k \in 1 .. 5 : Failed(k))
          => conn.pc = "thrown"

C39_ConnectTerminates ==
    /\ []ConnectSafe
    /\ (conn.pc # "idle") ~> (conn.pc \in {"returned", "thrown"})

\* connectDB has thrown after five failed attempts, of which the last
\* failed with another error than the one before it.
C39_Witness ==
    /\ conn.pc = "thrown"
    /\ Len(conn.attempts) = 5
    /\ conn.attempts[4] # conn.attempts[5]
    /\ conn.error = conn.attempts[5]

\* C33: no step of an /adduser or /removeuser sent by a user who is not an
\* admin changes the user collection: no flag of any user changes and no
\* user is created.
IsAdminUser(docs, telegramId) ==
    LET i == FindByTelegramId(docs, telegramId)
    IN i # 0 /\ docs[i].isAdmin

C33_AdminOnly ==
    [][\A h \in Ops :
          (/\ cmd'[h] # cmd[h]
           /\ cmd'[h].kind \in {"/adduser", "/removeuser"}
           /\ ~IsAdminUser(users, cmd'[h].from))
             => users' = users]_vars

\* The whitelisted user 2, who is not an admin, has sent /adduser 3 and
\* /removeuser 2: both handlers have returned, user 3 does not exist and
\* user 2 is still whitelisted.
C33_Witness ==
    /\ \E h \in Ops : cmd[h] = [pc |-> "done", kind |-> "/adduser",
                                from |-> 2, target |-> 3, error |-> "none"]
    /\ \E h \in Ops : cmd[h] = [pc |-> "done", kind |-> "/removeuser",
                                from |-> 2, target |-> 2, error |-> "none"]
    /\ users = InitialUsers

\* C34: removeFromWhitelist called for a user who is an admin fails and
\* changes no user document, and in every state every user who is an admin
\* passes the access check.
C34_AdminKeepsAccess ==
    /\ [][\A h \in Ops :
             (/\ cmd[h].pc = "wl_find"
              /\ cmd[h].kind = "/removeuser"
              /\ IsAdminUser(users, cmd[h].target)
              /\ cmd'[h] # cmd[h])
                => cmd'[h].pc = "failed" /\ users' = users]_vars
    /\ [](\A i \in DOMAIN users :
             users[i].isAdmin => CheckAccess(users, users[i].telegramId))

\* The admin has sent /removeuser for the admin's own id: the call has
\* failed and the document is as it was.
C34_Witness ==
    /\ \E h \in Ops : cmd[h] = [pc |-> "failed", kind |-> "/removeuser",
                                from |-> 1, target |-> 1,
                                error |-> "DATABASE"]
    /\ users[1] = [telegramId |-> 1, isAdmin |-> TRUE, isWhitelisted |-> TRUE]

\* C35: the user collection holds at most one document per telegramId.
C35_OneUserPerTelegramId ==
    \A i, j \in DOMAIN users :
        users[i].telegramId = users[j].telegramId => i = j

\* Two /start of the unknown user 3 that both found no document: one has
\* created it, the insert of the other was refused.
C35_Witness ==
    /\ \E h \in Ops : cmd[h] = [pc |-> "done", kind |-> "/start",
                                from |-> 3, target |-> 3, error |-> "none"]
    /\ \E h \in Ops : cmd[h] = [pc |-> "failed", kind |-> "/start",
                                from |-> 3, target |-> 3,
                                error |-> "DATABASE"]
    /\ Len(users) = 3

\* C31: a model selection changes the model of no conversation other than
\* the active conversation of the user who made it, however many listeners
\* the /changemodel commands have registered.
C31_SelectionChangesOwnConversation ==
    [][\A c \in DOMAIN convs :
          convs'[c].model # convs[c].model
             => \E run \in pending \ pending' :
                   /\ run.conversationId = c
                   /\ c \in run.active]_vars

\* C32: a command other than /start whose sender fails the access check
\* ends at the check, and no listener runs updateModel for a selection
\* made by a user whose access check was false when it was made.
C32_AccessChecked ==
    /\ [][\A h \in Ops :
             (/\ cmd[h].pc = "access"
              /\ cmd'[h] # cmd[h]
              /\ ~CheckAccess(users, cmd[h].from))
                => cmd'[h].pc = "failed"]_vars
    /\ [](\A run \in pending : run.access)

====
